---------------------------- MODULE Spec2Model ----------------------------
(***************************************************************************)
(* BriefBoard (Personal News Feed): the build pipeline of                  *)
(* scripts/build-today-json.mjs (normalise, dedupe, cluster) and the       *)
(* settings-driven selection and ranking of src/utils/scoring.ts and       *)
(* src/utils/ranking.ts.                                                   *)
(*                                                                         *)
(* Text is modelled at character level: a string is a sequence of          *)
(* one-character strings, so that the regular expressions of the source    *)
(* are computed, not assumed.  Times are whole hours since an epoch.       *)
(* Scores are exact rationals kept as integers over a fixed denominator.   *)
(***************************************************************************)
EXTENDS Integers, Sequences, FiniteSets, TLC

VARIABLES
    now,        \* Date.now(), in hours
    pc,         \* position of main() in the build script
    feedIdx,    \* index of the current feed of the for-loop of main()
    xml,        \* main(): the document fetchXml returned for the current feed
    allItems,   \* main(): allItems
    failures,   \* main(): failures
    deduped,    \* toTodayJson(): dedupe(items), the input of clusterItems
    cursor,     \* clusterItems(): index of the next item of the for-loop
    clusters,   \* clusterItems(): clusters
    cluster,    \* chooseBestArticle(): argument cluster
    settings,   \* FeedSettings (argument of chooseBestArticle / deriveClusters)
    chosen,     \* chooseBestArticle(): returned { best, trace, alternatives }
    data,       \* deriveClusters(): argument data (today.json)
    derived,    \* deriveClusters(): returned DerivedCluster[]
    payload,    \* main(): payload, the value toTodayJson returned
    files,      \* public/data: today.json, sources.json, <date>/today.json, index.json
    again,      \* the value a second call with the same arguments returned
    urlArg,     \* canonicalUrl(): argument url
    urlResult,  \* canonicalUrl(): returned string
    archive,    \* App: the state of the Archive tab and its fetches in flight
    detail      \* App: the state of the story detail panel and its fetches in flight

vars == <<now, pc, feedIdx, xml, allItems, failures, deduped, cursor, clusters,
          cluster, settings, chosen, data, derived, payload, files, again,
          urlArg, urlResult, archive, detail>>

buildVars == <<pc, feedIdx, xml, allItems, failures, deduped, cursor, clusters, payload, files>>
chooseVars == <<cluster, chosen>>
rankVars == <<data, derived>>
appVars == <<urlArg, urlResult, archive, detail>>

-----------------------------------------------------------------------------
(* Generic helpers                                                         *)

Min(a, b) == IF a <= b THEN a ELSE b
Max(a, b) == IF a >= b THEN a ELSE b
Abs(a) == IF a >= 0 THEN a ELSE 0 - a
Range(s) == {s[i] : i \in 1..Len(s)}
Take(s, n) == SubSeq(s, 1, Min(n, Len(s)))

\* Array.prototype.find: the least index whose element passes the test, 0 if none
\* (passes[i] is the outcome of the test on the element at i)
FindIndex(passes) ==
    IF \E i \in 1..Len(passes) : passes[i]
    THEN CHOOSE i \in 1..Len(passes) : passes[i] /\ \A j \in 1..(i - 1) : ~passes[j]
    ELSE 0

-----------------------------------------------------------------------------
(* Strings as character sequences                                          *)

\* The characters of every string the model's inputs and templates use
Spelling ==
    ("" :> <<>>)
 @@ ("Budget" :> <<"B", "u", "d", "g", "e", "t">>)
 @@ ("BUDGET!" :> <<"B", "U", "D", "G", "E", "T", "!">>)
 @@ ("Budget bill" :> <<"B", "u", "d", "g", "e", "t", " ", "b", "i", "l", "l">>)
 @@ ("Budget vote" :> <<"B", "u", "d", "g", "e", "t", " ", "v", "o", "t", "e">>)
 @@ ("Tax" :> <<"T", "a", "x">>)
 @@ ("War - AP" :> <<"W", "a", "r", " ", "-", " ", "A", "P">>)
 @@ ("SHOCKING budget!!" :>
        <<"S", "H", "O", "C", "K", "I", "N", "G", " ", "b", "u", "d", "g", "e",
          "t", "!", "!">>)
 @@ ("BUDGET BILL PASSES NOW" :>
        <<"B", "U", "D", "G", "E", "T", " ", "B", "I", "L", "L", " ", "P", "A",
          "S", "S", "E", "S", " ", "N", "O", "W">>)
 @@ ("B Story" :> <<"B", " ", "S", "t", "o", "r", "y">>)
 @@ ("A Story" :> <<"A", " ", "S", "t", "o", "r", "y">>)
 @@ ("C Story" :> <<"C", " ", "S", "t", "o", "r", "y">>)
 @@ ("D Story" :> <<"D", " ", "S", "t", "o", "r", "y">>)
 @@ ("budget" :> <<"b", "u", "d", "g", "e", "t">>)
 @@ ("bill" :> <<"b", "i", "l", "l">>)
 @@ ("vote" :> <<"v", "o", "t", "e">>)
 @@ ("story" :> <<"s", "t", "o", "r", "y">>)
 @@ ("Story" :> <<"S", "t", "o", "r", "y">>)
 @@ ("a.com" :> <<"a", ".", "c", "o", "m">>)
 @@ ("b.com" :> <<"b", ".", "c", "o", "m">>)
 @@ ("c.org" :> <<"c", ".", "o", "r", "g">>)
 @@ ("d.net" :> <<"d", ".", "n", "e", "t">>)
 @@ ("e.io" :> <<"e", ".", "i", "o">>)
 @@ ("fallback" :> <<"f", "a", "l", "l", "b", "a", "c", "k">>)
 @@ ("High" :> <<"H", "i", "g", "h">>)
 @@ ("Med" :> <<"M", "e", "d">>)
 @@ ("Low" :> <<"L", "o", "w">>)
 @@ ("Yes" :> <<"Y", "e", "s">>)
 @@ ("No" :> <<"N", "o">>)
 @@ ("allow" :> <<"a", "l", "l", "o", "w">>)
 @@ ("downrank" :> <<"d", "o", "w", "n", "r", "a", "n", "k">>)
 @@ ("hide" :> <<"h", "i", "d", "e">>)
 @@ ("Fallback pick: nothing passed your settings, so highest available reliability was selected." :>
        <<"F", "a", "l", "l", "b", "a", "c", "k", " ", "p", "i", "c", "k", ":",
          " ", "n", "o", "t", "h", "i", "n", "g", " ", "p", "a", "s", "s", "e",
          "d", " ", "y", "o", "u", "r", " ", "s", "e", "t", "t", "i", "n", "g",
          "s", ",", " ", "s", "o", " ", "h", "i", "g", "h", "e", "s", "t", " ",
          "a", "v", "a", "i", "l", "a", "b", "l", "e", " ", "r", "e", "l", "i",
          "a", "b", "i", "l", "i", "t", "y", " ", "w", "a", "s", " ", "s", "e",
          "l", "e", "c", "t", "e", "d", ".">>)
 @@ ("Best Source: " :>
        <<"B", "e", "s", "t", " ", "S", "o", "u", "r", "c", "e", ":", " ">>)
 @@ (" (reliability " :>
        <<" ", "(", "r", "e", "l", "i", "a", "b", "i", "l", "i", "t", "y", " ">>)
 @@ (", paywall " :> <<",", " ", "p", "a", "y", "w", "a", "l", "l", " ">>)
 @@ (", paywall mode " :>
        <<",", " ", "p", "a", "y", "w", "a", "l", "l", " ", "m", "o", "d", "e", " ">>)
 @@ (")." :> <<")", ".">>)
 @@ ("Senate Passes Budget Bill - Reuters" :>
        <<"S", "e", "n", "a", "t", "e", " ", "P", "a", "s", "s", "e", "s", " ",
          "B", "u", "d", "g", "e", "t", " ", "B", "i", "l", "l", " ", "-", " ",
          "R", "e", "u", "t", "e", "r", "s">>)
 @@ ("Budget - approved by Senate" :>
        <<"B", "u", "d", "g", "e", "t", " ", "-", " ", "a", "p", "p", "r", "o",
          "v", "e", "d", " ", "b", "y", " ", "S", "e", "n", "a", "t", "e">>)
 @@ ("Stocks: markets rally, then fall!" :>
        <<"S", "t", "o", "c", "k", "s", ":", " ", "m", "a", "r", "k", "e", "t",
          "s", " ", "r", "a", "l", "l", "y", ",", " ", "t", "h", "e", "n", " ",
          "f", "a", "l", "l", "!">>)
 @@ ("Senate passes budget bill after long night session with narrow vote margin" :>
        <<"S", "e", "n", "a", "t", "e", " ", "p", "a", "s", "s", "e", "s", " ",
          "b", "u", "d", "g", "e", "t", " ", "b", "i", "l", "l", " ", "a", "f",
          "t", "e", "r", " ", "l", "o", "n", "g", " ", "n", "i", "g", "h", "t",
          " ", "s", "e", "s", "s", "i", "o", "n", " ", "w", "i", "t", "h", " ",
          "n", "a", "r", "r", "o", "w", " ", "v", "o", "t", "e", " ", "m", "a",
          "r", "g", "i", "n">>)
 @@ ("Blocked by current settings (reliability/paywall/source weight)." :>
        <<"B", "l", "o", "c", "k", "e", "d", " ", "b", "y", " ", "c", "u", "r",
          "r", "e", "n", "t", " ", "s", "e", "t", "t", "i", "n", "g", "s", " ",
          "(", "r", "e", "l", "i", "a", "b", "i", "l", "i", "t", "y", "/", "p",
          "a", "y", "w", "a", "l", "l", "/", "s", "o", "u", "r", "c", "e", " ",
          "w", "e", "i", "g", "h", "t", ")", ".">>)
 @@ ("Scored lower due to freshness, source preference, or headline quality." :>
        <<"S", "c", "o", "r", "e", "d", " ", "l", "o", "w", "e", "r", " ", "d",
          "u", "e", " ", "t", "o", " ", "f", "r", "e", "s", "h", "n", "e", "s",
          "s", ",", " ", "s", "o", "u", "r", "c", "e", " ", "p", "r", "e", "f",
          "e", "r", "e", "n", "c", "e", ",", " ", "o", "r", " ", "h", "e", "a",
          "d", "l", "i", "n", "e", " ", "q", "u", "a", "l", "i", "t", "y", ".">>)
 @@ ("blocked" :> <<"b", "l", "o", "c", "k", "e", "d">>)
 @@ ("utm_source" :> <<"u", "t", "m", "_", "s", "o", "u", "r", "c", "e">>)
 @@ ("utm_medium" :> <<"u", "t", "m", "_", "m", "e", "d", "i", "u", "m">>)
 @@ ("utm_campaign" :> <<"u", "t", "m", "_", "c", "a", "m", "p", "a", "i", "g", "n">>)
 @@ ("utm_term" :> <<"u", "t", "m", "_", "t", "e", "r", "m">>)
 @@ ("utm_content" :> <<"u", "t", "m", "_", "c", "o", "n", "t", "e", "n", "t">>)
 @@ ("gclid" :> <<"g", "c", "l", "i", "d">>)
 @@ ("1970-01-03T12:00:00.000Z" :>
        <<"1", "9", "7", "0", "-", "0", "1", "-", "0", "3", "T", "1", "2", ":",
          "0", "0", ":", "0", "0", ".", "0", "0", "0", "Z">>)
 @@ ("1970-01-03" :> <<"1", "9", "7", "0", "-", "0", "1", "-", "0", "3">>)
 @@ ("1970-01-02" :> <<"1", "9", "7", "0", "-", "0", "1", "-", "0", "2">>)
 @@ ("1970-01-01" :> <<"1", "9", "7", "0", "-", "0", "1", "-", "0", "1">>)
 @@ ("03/01/1970" :> <<"0", "3", "/", "0", "1", "/", "1", "9", "7", "0">>)
 @@ ("today" :> <<"t", "o", "d", "a", "y">>)
 @@ ("https://a.com/1" :>
        <<"h", "t", "t", "p", "s", ":", "/", "/", "a", ".", "c", "o", "m", "/", "1">>)
 @@ (" https://a.com/1" :>
        <<" ", "h", "t", "t", "p", "s", ":", "/", "/", "a", ".", "c", "o", "m",
          "/", "1">>)
 @@ ("https://a.com/1 " :>
        <<"h", "t", "t", "p", "s", ":", "/", "/", "a", ".", "c", "o", "m", "/",
          "1", " ">>)
 @@ (" https://a.com/1 " :>
        <<" ", "h", "t", "t", "p", "s", ":", "/", "/", "a", ".", "c", "o", "m",
          "/", "1", " ">>)
 @@ ("https://a.com/1?utm_source=rss#top" :>
        <<"h", "t", "t", "p", "s", ":", "/", "/", "a", ".", "c", "o", "m", "/",
          "1", "?", "u", "t", "m", "_", "s", "o", "u", "r", "c", "e", "=", "r",
          "s", "s", "#", "t", "o", "p">>)
 @@ (" https://a.com/1?utm_source=rss#top" :>
        <<" ", "h", "t", "t", "p", "s", ":", "/", "/", "a", ".", "c", "o", "m",
          "/", "1", "?", "u", "t", "m", "_", "s", "o", "u", "r", "c", "e", "=",
          "r", "s", "s", "#", "t", "o", "p">>)
 @@ ("https://a.com/1?utm_source=rss#top " :>
        <<"h", "t", "t", "p", "s", ":", "/", "/", "a", ".", "c", "o", "m", "/",
          "1", "?", "u", "t", "m", "_", "s", "o", "u", "r", "c", "e", "=", "r",
          "s", "s", "#", "t", "o", "p", " ">>)
 @@ (" https://a.com/1?utm_source=rss#top " :>
        <<" ", "h", "t", "t", "p", "s", ":", "/", "/", "a", ".", "c", "o", "m",
          "/", "1", "?", "u", "t", "m", "_", "s", "o", "u", "r", "c", "e", "=",
          "r", "s", "s", "#", "t", "o", "p", " ">>)
 @@ ("https://www.b.com/2" :>
        <<"h", "t", "t", "p", "s", ":", "/", "/", "w", "w", "w", ".", "b", ".",
          "c", "o", "m", "/", "2">>)
 @@ (" https://www.b.com/2" :>
        <<" ", "h", "t", "t", "p", "s", ":", "/", "/", "w", "w", "w", ".", "b",
          ".", "c", "o", "m", "/", "2">>)
 @@ ("https://www.b.com/2 " :>
        <<"h", "t", "t", "p", "s", ":", "/", "/", "w", "w", "w", ".", "b", ".",
          "c", "o", "m", "/", "2", " ">>)
 @@ (" https://www.b.com/2 " :>
        <<" ", "h", "t", "t", "p", "s", ":", "/", "/", "w", "w", "w", ".", "b",
          ".", "c", "o", "m", "/", "2", " ">>)
 @@ ("https://www.b.com/5" :>
        <<"h", "t", "t", "p", "s", ":", "/", "/", "w", "w", "w", ".", "b", ".",
          "c", "o", "m", "/", "5">>)
 @@ (" https://www.b.com/5" :>
        <<" ", "h", "t", "t", "p", "s", ":", "/", "/", "w", "w", "w", ".", "b",
          ".", "c", "o", "m", "/", "5">>)
 @@ ("https://www.b.com/5 " :>
        <<"h", "t", "t", "p", "s", ":", "/", "/", "w", "w", "w", ".", "b", ".",
          "c", "o", "m", "/", "5", " ">>)
 @@ (" https://www.b.com/5 " :>
        <<" ", "h", "t", "t", "p", "s", ":", "/", "/", "w", "w", "w", ".", "b",
          ".", "c", "o", "m", "/", "5", " ">>)
 @@ ("https://c.org/3" :>
        <<"h", "t", "t", "p", "s", ":", "/", "/", "c", ".", "o", "r", "g", "/", "3">>)
 @@ (" https://c.org/3" :>
        <<" ", "h", "t", "t", "p", "s", ":", "/", "/", "c", ".", "o", "r", "g",
          "/", "3">>)
 @@ ("https://c.org/3 " :>
        <<"h", "t", "t", "p", "s", ":", "/", "/", "c", ".", "o", "r", "g", "/",
          "3", " ">>)
 @@ (" https://c.org/3 " :>
        <<" ", "h", "t", "t", "p", "s", ":", "/", "/", "c", ".", "o", "r", "g",
          "/", "3", " ">>)
 @@ ("https://c.org/4" :>
        <<"h", "t", "t", "p", "s", ":", "/", "/", "c", ".", "o", "r", "g", "/", "4">>)
 @@ (" https://c.org/4" :>
        <<" ", "h", "t", "t", "p", "s", ":", "/", "/", "c", ".", "o", "r", "g",
          "/", "4">>)
 @@ ("https://c.org/4 " :>
        <<"h", "t", "t", "p", "s", ":", "/", "/", "c", ".", "o", "r", "g", "/",
          "4", " ">>)
 @@ (" https://c.org/4 " :>
        <<" ", "h", "t", "t", "p", "s", ":", "/", "/", "c", ".", "o", "r", "g",
          "/", "4", " ">>)
 @@ ("https://a.com/1?id=7&utm_medium=mail&gclid=x#frag" :>
        <<"h", "t", "t", "p", "s", ":", "/", "/", "a", ".", "c", "o", "m", "/",
          "1", "?", "i", "d", "=", "7", "&", "u", "t", "m", "_", "m", "e", "d",
          "i", "u", "m", "=", "m", "a", "i", "l", "&", "g", "c", "l", "i", "d",
          "=", "x", "#", "f", "r", "a", "g">>)
 @@ (" https://a.com/1?id=7&utm_medium=mail&gclid=x#frag" :>
        <<" ", "h", "t", "t", "p", "s", ":", "/", "/", "a", ".", "c", "o", "m",
          "/", "1", "?", "i", "d", "=", "7", "&", "u", "t", "m", "_", "m", "e",
          "d", "i", "u", "m", "=", "m", "a", "i", "l", "&", "g", "c", "l", "i",
          "d", "=", "x", "#", "f", "r", "a", "g">>)
 @@ ("https://a.com/1?id=7&utm_medium=mail&gclid=x#frag " :>
        <<"h", "t", "t", "p", "s", ":", "/", "/", "a", ".", "c", "o", "m", "/",
          "1", "?", "i", "d", "=", "7", "&", "u", "t", "m", "_", "m", "e", "d",
          "i", "u", "m", "=", "m", "a", "i", "l", "&", "g", "c", "l", "i", "d",
          "=", "x", "#", "f", "r", "a", "g", " ">>)
 @@ (" https://a.com/1?id=7&utm_medium=mail&gclid=x#frag " :>
        <<" ", "h", "t", "t", "p", "s", ":", "/", "/", "a", ".", "c", "o", "m",
          "/", "1", "?", "i", "d", "=", "7", "&", "u", "t", "m", "_", "m", "e",
          "d", "i", "u", "m", "=", "m", "a", "i", "l", "&", "g", "c", "l", "i",
          "d", "=", "x", "#", "f", "r", "a", "g", " ">>)
 @@ ("https://a.com/1?id=7" :>
        <<"h", "t", "t", "p", "s", ":", "/", "/", "a", ".", "c", "o", "m", "/",
          "1", "?", "i", "d", "=", "7">>)
 @@ (" https://a.com/1?id=7" :>
        <<" ", "h", "t", "t", "p", "s", ":", "/", "/", "a", ".", "c", "o", "m",
          "/", "1", "?", "i", "d", "=", "7">>)
 @@ ("https://a.com/1?id=7 " :>
        <<"h", "t", "t", "p", "s", ":", "/", "/", "a", ".", "c", "o", "m", "/",
          "1", "?", "i", "d", "=", "7", " ">>)
 @@ (" https://a.com/1?id=7 " :>
        <<" ", "h", "t", "t", "p", "s", ":", "/", "/", "a", ".", "c", "o", "m",
          "/", "1", "?", "i", "d", "=", "7", " ">>)
 @@ ("https://a.com/1?utm_campaign=c&utm_term=t&utm_content=k" :>
        <<"h", "t", "t", "p", "s", ":", "/", "/", "a", ".", "c", "o", "m", "/",
          "1", "?", "u", "t", "m", "_", "c", "a", "m", "p", "a", "i", "g", "n",
          "=", "c", "&", "u", "t", "m", "_", "t", "e", "r", "m", "=", "t", "&",
          "u", "t", "m", "_", "c", "o", "n", "t", "e", "n", "t", "=", "k">>)
 @@ (" https://a.com/1?utm_campaign=c&utm_term=t&utm_content=k" :>
        <<" ", "h", "t", "t", "p", "s", ":", "/", "/", "a", ".", "c", "o", "m",
          "/", "1", "?", "u", "t", "m", "_", "c", "a", "m", "p", "a", "i", "g",
          "n", "=", "c", "&", "u", "t", "m", "_", "t", "e", "r", "m", "=", "t",
          "&", "u", "t", "m", "_", "c", "o", "n", "t", "e", "n", "t", "=", "k">>)
 @@ ("https://a.com/1?utm_campaign=c&utm_term=t&utm_content=k " :>
        <<"h", "t", "t", "p", "s", ":", "/", "/", "a", ".", "c", "o", "m", "/",
          "1", "?", "u", "t", "m", "_", "c", "a", "m", "p", "a", "i", "g", "n",
          "=", "c", "&", "u", "t", "m", "_", "t", "e", "r", "m", "=", "t", "&",
          "u", "t", "m", "_", "c", "o", "n", "t", "e", "n", "t", "=", "k", " ">>)
 @@ (" https://a.com/1?utm_campaign=c&utm_term=t&utm_content=k " :>
        <<" ", "h", "t", "t", "p", "s", ":", "/", "/", "a", ".", "c", "o", "m",
          "/", "1", "?", "u", "t", "m", "_", "c", "a", "m", "p", "a", "i", "g",
          "n", "=", "c", "&", "u", "t", "m", "_", "t", "e", "r", "m", "=", "t",
          "&", "u", "t", "m", "_", "c", "o", "n", "t", "e", "n", "t", "=", "k", " ">>)
 @@ ("https://a.com/1#top" :>
        <<"h", "t", "t", "p", "s", ":", "/", "/", "a", ".", "c", "o", "m", "/",
          "1", "#", "t", "o", "p">>)
 @@ (" https://a.com/1#top" :>
        <<" ", "h", "t", "t", "p", "s", ":", "/", "/", "a", ".", "c", "o", "m",
          "/", "1", "#", "t", "o", "p">>)
 @@ ("https://a.com/1#top " :>
        <<"h", "t", "t", "p", "s", ":", "/", "/", "a", ".", "c", "o", "m", "/",
          "1", "#", "t", "o", "p", " ">>)
 @@ (" https://a.com/1#top " :>
        <<" ", "h", "t", "t", "p", "s", ":", "/", "/", "a", ".", "c", "o", "m",
          "/", "1", "#", "t", "o", "p", " ">>)
 @@ ("https://a.com/1?gclid=x&id=7&p=2" :>
        <<"h", "t", "t", "p", "s", ":", "/", "/", "a", ".", "c", "o", "m", "/",
          "1", "?", "g", "c", "l", "i", "d", "=", "x", "&", "i", "d", "=", "7",
          "&", "p", "=", "2">>)
 @@ (" https://a.com/1?gclid=x&id=7&p=2" :>
        <<" ", "h", "t", "t", "p", "s", ":", "/", "/", "a", ".", "c", "o", "m",
          "/", "1", "?", "g", "c", "l", "i", "d", "=", "x", "&", "i", "d", "=",
          "7", "&", "p", "=", "2">>)
 @@ ("https://a.com/1?gclid=x&id=7&p=2 " :>
        <<"h", "t", "t", "p", "s", ":", "/", "/", "a", ".", "c", "o", "m", "/",
          "1", "?", "g", "c", "l", "i", "d", "=", "x", "&", "i", "d", "=", "7",
          "&", "p", "=", "2", " ">>)
 @@ (" https://a.com/1?gclid=x&id=7&p=2 " :>
        <<" ", "h", "t", "t", "p", "s", ":", "/", "/", "a", ".", "c", "o", "m",
          "/", "1", "?", "g", "c", "l", "i", "d", "=", "x", "&", "i", "d", "=",
          "7", "&", "p", "=", "2", " ">>)
 @@ ("https://a.com/1?id=7&p=2" :>
        <<"h", "t", "t", "p", "s", ":", "/", "/", "a", ".", "c", "o", "m", "/",
          "1", "?", "i", "d", "=", "7", "&", "p", "=", "2">>)
 @@ (" https://a.com/1?id=7&p=2" :>
        <<" ", "h", "t", "t", "p", "s", ":", "/", "/", "a", ".", "c", "o", "m",
          "/", "1", "?", "i", "d", "=", "7", "&", "p", "=", "2">>)
 @@ ("https://a.com/1?id=7&p=2 " :>
        <<"h", "t", "t", "p", "s", ":", "/", "/", "a", ".", "c", "o", "m", "/",
          "1", "?", "i", "d", "=", "7", "&", "p", "=", "2", " ">>)
 @@ (" https://a.com/1?id=7&p=2 " :>
        <<" ", "h", "t", "t", "p", "s", ":", "/", "/", "a", ".", "c", "o", "m",
          "/", "1", "?", "i", "d", "=", "7", "&", "p", "=", "2", " ">>)
 @@ ("not a url" :> <<"n", "o", "t", " ", "a", " ", "u", "r", "l">>)
 @@ (" not a url" :> <<" ", "n", "o", "t", " ", "a", " ", "u", "r", "l">>)
 @@ ("not a url " :> <<"n", "o", "t", " ", "a", " ", "u", "r", "l", " ">>)
 @@ (" not a url " :> <<" ", "n", "o", "t", " ", "a", " ", "u", "r", "l", " ">>)
 @@ ("a.com/1" :> <<"a", ".", "c", "o", "m", "/", "1">>)
 @@ (" a.com/1" :> <<" ", "a", ".", "c", "o", "m", "/", "1">>)
 @@ ("a.com/1 " :> <<"a", ".", "c", "o", "m", "/", "1", " ">>)
 @@ (" a.com/1 " :> <<" ", "a", ".", "c", "o", "m", "/", "1", " ">>)

Spell(s) == Spelling[s]

\* the string of a character sequence
RECURSIVE Join(_)
Join(cs) == IF cs = <<>> THEN "" ELSE Head(cs) \o Join(Tail(cs))

UpperChars == <<"A", "B", "C", "D", "E", "F", "G", "H", "I", "J", "K", "L", "M",
                "N", "O", "P", "Q", "R", "S", "T", "U", "V", "W", "X", "Y", "Z">>
LowerChars == <<"a", "b", "c", "d", "e", "f", "g", "h", "i", "j", "k", "l", "m",
                "n", "o", "p", "q", "r", "s", "t", "u", "v", "w", "x", "y", "z">>
DigitChars == {"0", "1", "2", "3", "4", "5", "6", "7", "8", "9"}
\* \s : titles are whitespace-collapsed by decodeHtml, so the space is the only one
SpaceChars == {" "}
\* [|–—-] : the en dash and the em dash are written "ndash" and "mdash"
DashChars == {"|", "ndash", "mdash", "-"}

toLowerChar(c) ==
    IF \E k \in 1..26 : UpperChars[k] = c
    THEN LowerChars[CHOOSE k \in 1..26 : UpperChars[k] = c]
    ELSE c

toLowerCase(s) == [i \in 1..Len(s) |-> toLowerChar(s[i])]

\* s has w at position j
StartsAt(s, j, w) ==
    /\ j >= 1
    /\ j + Len(w) - 1 <= Len(s)
    /\ \A k \in 1..Len(w) : s[j + k - 1] = w[k]

\* String.prototype.includes
includes(s, w) == \E j \in 1..(Len(s) + 1) : StartsAt(s, j, w)

\* the first position >= j that holds no whitespace (Len(s) + 1 if none)
SkipSpaces(s, j) ==
    CHOOSE k \in j..(Len(s) + 1) :
        /\ \A m \in j..(k - 1) : s[m] \in SpaceChars
        /\ (k = Len(s) + 1 \/ s[k] \notin SpaceChars)

WireServices == {
    <<"r", "e", "u", "t", "e", "r", "s">>,
    <<"a", "s", "s", "o", "c", "i", "a", "t", "e", "d", " ", "p", "r", "e", "s", "s">>,
    <<"a", "p">>,
    <<"b", "b", "c">>,
    <<"g", "u", "a", "r", "d", "i", "a", "n">>,
    <<"n", "y", "t", "i", "m", "e", "s">>,
    <<"c", "n", "n">>,
    <<"f", "o", "x">>,
    <<"n", "p", "r">>,
    <<"w", "s", "j">> }

\* /[|–—-]\s*(reuters|...|wsj).*$/i matches at position i
WireSuffixAt(s, i) ==
    /\ s[i] \in DashChars
    /\ \E w \in WireServices : StartsAt(toLowerCase(s), SkipSpaces(s, i + 1), w)

\* .replace(/[|–—-]\s*(reuters|...).*$/i, "") : cut at the leftmost match
StripWireSuffix(s) ==
    IF \E i \in 1..Len(s) : WireSuffixAt(s, i)
    THEN SubSeq(s, 1, (CHOOSE i \in 1..Len(s) :
                          WireSuffixAt(s, i) /\ \A j \in 1..(i - 1) : ~WireSuffixAt(s, j)) - 1)
    ELSE s

\* .replace(/[^a-z0-9\s]/g, " ")
StripPunctuation(s) ==
    [i \in 1..Len(s) |->
        IF s[i] \in Range(LowerChars) \cup DigitChars \cup SpaceChars THEN s[i] ELSE " "]

\* .replace(/\s+/g, " ")
RECURSIVE CollapseSpaces(_)
CollapseSpaces(s) ==
    IF s = <<>> THEN <<>>
    ELSE IF Len(s) >= 2 /\ s[1] \in SpaceChars /\ s[2] \in SpaceChars
         THEN CollapseSpaces(Tail(s))
         ELSE <<(IF s[1] \in SpaceChars THEN " " ELSE s[1])>> \o CollapseSpaces(Tail(s))

\* String.prototype.trim
trim(s) ==
    IF \A i \in 1..Len(s) : s[i] \in SpaceChars THEN <<>>
    ELSE LET first == CHOOSE i \in 1..Len(s) :
                          s[i] \notin SpaceChars /\ \A j \in 1..(i - 1) : s[j] \in SpaceChars
             last == CHOOSE i \in 1..Len(s) :
                          s[i] \notin SpaceChars /\ \A j \in (i + 1)..Len(s) : s[j] \in SpaceChars
         IN SubSeq(s, first, last)

\* String.prototype.split(" ")
RECURSIVE split(_)
split(s) ==
    IF \A i \in 1..Len(s) : s[i] # " " THEN <<s>>
    ELSE LET i == CHOOSE k \in 1..Len(s) : s[k] = " " /\ \A j \in 1..(k - 1) : s[j] # " "
         IN <<SubSeq(s, 1, i - 1)>> \o split(SubSeq(s, i + 1, Len(s)))

\* the chain of replacements of normalizeTitle, on characters
NormalizeChars(chars) ==
    trim(CollapseSpaces(StripPunctuation(StripWireSuffix(toLowerCase(chars)))))

LongWord(word) == Len(word) > 3

\* String.prototype.split(" ") of a normalized title, as strings
WordsOf(chars) == [i \in 1..Len(split(chars)) |-> Join(split(chars)[i])]

\* normalizeTitle and keywordsFromTitle of every string of the model, computed once
NormalizedTitles == [title \in DOMAIN Spelling |-> Join(NormalizeChars(Spell(title)))]
TitleKeywords ==
    [title \in DOMAIN Spelling |->
        Take(SelectSeq(WordsOf(NormalizeChars(Spell(title))), LongWord), 8)]

normalizeTitle(title) == NormalizedTitles[title]

keywordsFromTitle(title) == TitleKeywords[title]

\* overlapScore with the guard on an empty union replaced by a full match
overlapScore_EmptyIsFull(a, b) ==
    LET setA == Range(a)
        setB == Range(b)
        intersection == Cardinality({item \in setA : item \in setB})
        union == Cardinality(setA \cup setB)
    IN IF union = 0 THEN [num |-> 1, den |-> 1] ELSE [num |-> intersection, den |-> union]

\* overlapScore: the Jaccard ratio, kept as numerator and denominator
overlapScore(a, b) ==
    LET setA == Range(a)
        setB == Range(b)
        intersection == Cardinality({item \in setA : item \in setB})
        union == Cardinality(setA \cup setB)
    IN IF union = 0 THEN [num |-> 0, den |-> 1] ELSE [num |-> intersection, den |-> union]

-----------------------------------------------------------------------------
(* URLs: what the WHATWG URL parser returns for the links of the model     *)

UrlTable ==
    ("https://a.com/1" :>
        [host |-> <<"a", "com">>, path |-> "/1", query |-> <<>>, hash |-> ""])
 @@ ("https://a.com/1?utm_source=rss#top" :>
        [host |-> <<"a", "com">>, path |-> "/1",
         query |-> <<[key |-> "utm_source", value |-> "rss"]>>, hash |-> "top"])
 @@ ("https://www.b.com/2" :>
        [host |-> <<"www", "b", "com">>, path |-> "/2", query |-> <<>>, hash |-> ""])
 @@ ("https://www.b.com/5" :>
        [host |-> <<"www", "b", "com">>, path |-> "/5", query |-> <<>>, hash |-> ""])
 @@ ("https://c.org/3" :>
        [host |-> <<"c", "org">>, path |-> "/3", query |-> <<>>, hash |-> ""])
 @@ ("https://c.org/4" :>
        [host |-> <<"c", "org">>, path |-> "/4", query |-> <<>>, hash |-> ""])
 @@ ("https://a.com/1?id=7&utm_medium=mail&gclid=x#frag" :>
        [host |-> <<"a", "com">>, path |-> "/1",
         query |-> <<[key |-> "id", value |-> "7"], [key |-> "utm_medium", value |-> "mail"],
                     [key |-> "gclid", value |-> "x"]>>, hash |-> "frag"])
 @@ ("https://a.com/1?id=7" :>
        [host |-> <<"a", "com">>, path |-> "/1",
         query |-> <<[key |-> "id", value |-> "7"]>>, hash |-> ""])
 @@ ("https://a.com/1?utm_campaign=c&utm_term=t&utm_content=k" :>
        [host |-> <<"a", "com">>, path |-> "/1",
         query |-> <<[key |-> "utm_campaign", value |-> "c"], [key |-> "utm_term", value |-> "t"],
                     [key |-> "utm_content", value |-> "k"]>>, hash |-> ""])
 @@ ("https://a.com/1#top" :>
        [host |-> <<"a", "com">>, path |-> "/1", query |-> <<>>, hash |-> "top"])
 @@ ("https://a.com/1?gclid=x&id=7&p=2" :>
        [host |-> <<"a", "com">>, path |-> "/1",
         query |-> <<[key |-> "gclid", value |-> "x"], [key |-> "id", value |-> "7"],
                     [key |-> "p", value |-> "2"]>>, hash |-> ""])
 @@ ("https://a.com/1?id=7&p=2" :>
        [host |-> <<"a", "com">>, path |-> "/1",
         query |-> <<[key |-> "id", value |-> "7"], [key |-> "p", value |-> "2"]>>,
         hash |-> ""])

\* the tracking parameters without gclid
TrackingParams_WithoutGclid ==
    {"utm_source", "utm_medium", "utm_campaign", "utm_term", "utm_content"}

TrackingParams ==
    {"utm_source", "utm_medium", "utm_campaign", "utm_term", "utm_content", "gclid"}

RECURSIVE JoinWith(_, _)
JoinWith(parts, sep) ==
    IF parts = <<>> THEN ""
    ELSE IF Len(parts) = 1 THEN parts[1]
    ELSE parts[1] \o sep \o JoinWith(Tail(parts), sep)

NotTracking(param) == param.key \notin TrackingParams
ParamText(param) == param.key \o "=" \o param.value

\* URL.prototype.toString
Href(parsed) ==
    "https://" \o JoinWith(parsed.host, ".") \o parsed.path
        \o (IF parsed.query = <<>> THEN ""
            ELSE "?" \o JoinWith([i \in 1..Len(parsed.query) |-> ParamText(parsed.query[i])], "&"))
        \o (IF parsed.hash = "" THEN "" ELSE "#" \o parsed.hash)

\* url.trim() of every string of the model, computed once
Trimmed == [string \in DOMAIN Spelling |-> Join(trim(Spell(string)))]

canonicalUrl(url) ==
    LET trimmed == Trimmed[url]
    IN IF trimmed \in DOMAIN UrlTable
       THEN Href([UrlTable[trimmed] EXCEPT
                     !.hash = "",
                     !.query = SelectSeq(UrlTable[trimmed].query, NotTracking)])
       ELSE trimmed

toDomain(url) ==
    IF url \in DOMAIN UrlTable
    THEN LET host == UrlTable[url].host
         IN JoinWith(IF Len(host) > 1 /\ host[1] = "www" THEN Tail(host) ELSE host, ".")
    ELSE "unknown"

-----------------------------------------------------------------------------
(* parseRssItem                                                            *)

\* Date.parse of the date strings of the model, in hours; any other string is invalid
DateTable ==
    ("Thu, 01 Jan 1970 00:00:00 GMT" :> 0)
 @@ ("Thu, 01 Jan 1970 20:00:00 GMT" :> 20)
 @@ ("Fri, 02 Jan 1970 16:00:00 GMT" :> 40)

\* new Date(publishedAt || Date.now())
NewDate(publishedAt) ==
    IF publishedAt = "" THEN [valid |-> TRUE, time |-> now]
    ELSE IF publishedAt \in DOMAIN DateTable
         THEN [valid |-> TRUE, time |-> DateTable[publishedAt]]
         ELSE [valid |-> FALSE, time |-> 0]

reliabilityBucket(score) ==
    IF score >= 80 THEN "High" ELSE IF score >= 60 THEN "Med" ELSE "Low"

\* config/sources.json
Sources == <<
    [domain |-> "a.com", reliability_score |-> 85, region |-> "US", tags |-> <<"paywall">>],
    [domain |-> "b.com", reliability_score |-> 55, region |-> "Europe", tags |-> <<>>,
     bias_label |-> "Left"] >>

\* config/rss-feeds.json
Feeds == <<
    [name |-> "Feed A", reliability |-> "High", region |-> "US", bias_label |-> "Right"],
    [name |-> "Feed B"] >>

\* new Map(sources.map((source) => [source.domain, source])) : the last entry of a domain
HasSource(domain) == \E i \in 1..Len(Sources) : Sources[i].domain = domain
SourceOf(domain) ==
    Sources[CHOOSE i \in 1..Len(Sources) :
                /\ Sources[i].domain = domain
                /\ \A j \in (i + 1)..Len(Sources) : Sources[j].domain # domain]

\* a ?? b ?? c on an optional field of the source, then of the feed
Resolve(domain, feed, field, default) ==
    IF HasSource(domain) /\ field \in DOMAIN SourceOf(domain) THEN SourceOf(domain)[field]
    ELSE IF field \in DOMAIN feed THEN feed[field]
    ELSE default

\* the result is null, an item, or the RangeError of Date.prototype.toISOString
parseRssItem(rawItem, feed) ==
    LET url == rawItem.link
        title == rawItem.title
        snippet == rawItem.description
        publishedAt == rawItem.pubDate
        canonical == canonicalUrl(url)
        domain == toDomain(canonical)
        reliabilityScore == IF HasSource(domain) THEN SourceOf(domain).reliability_score ELSE 65
    IN IF url = "" \/ title = "" THEN [kind |-> "null"]
       ELSE IF ~NewDate(publishedAt).valid THEN [kind |-> "throw"]
       ELSE [kind |-> "item",
             item |-> [
                url |-> canonical,
                title |-> title,
                normalized_title |-> normalizeTitle(title),
                keywords |-> keywordsFromTitle(title),
                source_domain |-> domain,
                timestamp |-> NewDate(publishedAt).time,
                snippet |-> IF snippet # "" THEN snippet ELSE feed.name \o " coverage",
                labels |-> [
                    reliability |-> reliabilityBucket(reliabilityScore),
                    region |-> Resolve(domain, feed, "region", "Global"),
                    paywall |-> IF HasSource(domain) /\ "paywall" \in Range(SourceOf(domain).tags)
                                THEN "Yes" ELSE "No",
                    bias_label |-> Resolve(domain, feed, "bias_label", "Center")],
                feed_name |-> feed.name]]

-----------------------------------------------------------------------------
(* dedupe and clusterItems                                                 *)

\* Map.prototype.set: a key already present keeps its place and takes the new value
MapSet(entries, key, value) ==
    IF \E i \in 1..Len(entries) : entries[i].key = key
    THEN [i \in 1..Len(entries) |->
            IF entries[i].key = key THEN [key |-> key, value |-> value] ELSE entries[i]]
    ELSE Append(entries, [key |-> key, value |-> value])

\* new Map(pairs): the pairs are set one after the other
RECURSIVE NewMap(_)
NewMap(pairs) ==
    IF pairs = <<>> THEN <<>>
    ELSE LET last == pairs[Len(pairs)]
         IN MapSet(NewMap(SubSeq(pairs, 1, Len(pairs) - 1)), last.key, last.value)

dedupe(items) ==
    LET urlMap == NewMap([i \in 1..Len(items) |-> [key |-> items[i].url, value |-> items[i]]])
    IN [i \in 1..Len(urlMap) |-> urlMap[i].value]

\* [...new Set(array)] : the first occurrence of every element, in order
RECURSIVE Uniq(_)
Uniq(s) ==
    IF s = <<>> THEN <<>>
    ELSE LET front == Uniq(SubSeq(s, 1, Len(s) - 1))
             last == s[Len(s)]
         IN IF last \in Range(front) THEN front ELSE Append(front, last)

\* the predicate of clusters.find(...)
ClusterMatches(c, item) ==
    LET withinDay == Abs(c.updated_at - item.timestamp) <= 24
        similarity == overlapScore(c.keywords, item.keywords)
    IN withinDay /\ (100 * similarity.num >= 45 * similarity.den
                     \/ c.normalized_title = item.normalized_title)

\* Absorb with found.articles assigned instead of pushed to
Absorb_ReplacesArticles(found, item) ==
    [found EXCEPT
        !.articles = <<item>>,
        !.keywords = Uniq(@ \o item.keywords),
        !.updated_at = IF item.timestamp > @ THEN item.timestamp ELSE @]

\* Absorb with updated_at taken from every absorbed item, newer or not
Absorb_AlwaysAdvances(found, item) ==
    [found EXCEPT
        !.articles = Append(@, item),
        !.keywords = Uniq(@ \o item.keywords),
        !.updated_at = item.timestamp]

\* Absorb with the cluster renamed after the absorbed item
Absorb_RetitlesCluster(found, item) ==
    [found EXCEPT
        !.articles = Append(@, item),
        !.keywords = Uniq(@ \o item.keywords),
        !.title = item.title,
        !.normalized_title = item.normalized_title,
        !.updated_at = IF item.timestamp > @ THEN item.timestamp ELSE @]

\* Absorb with found.keywords replaced by the keywords of the item
Absorb_KeywordsOfItem(found, item) ==
    [found EXCEPT
        !.articles = Append(@, item),
        !.keywords = item.keywords,
        !.updated_at = IF item.timestamp > @ THEN item.timestamp ELSE @]

\* the if-branch of clusterItems: found takes the item
Absorb(found, item) ==
    [found EXCEPT
        !.articles = Append(@, item),
        !.keywords = Uniq(@ \o item.keywords),
        !.updated_at = IF item.timestamp > @ THEN item.timestamp ELSE @]

\* the else-branch of clusterItems: a cluster seeded with the item
NewCluster(item) ==
    [normalized_title |-> item.normalized_title,
     title |-> item.title,
     updated_at |-> item.timestamp,
     keywords |-> item.keywords,
     articles |-> <<item>>]

\* ClusterInto with the last matching cluster taken (findLast for find)
ClusterInto_LastMatch(cs, item) ==
    LET matching == {k \in 1..Len(cs) : ClusterMatches(cs[k], item)}
        found == IF matching = {} THEN 0
                 ELSE CHOOSE k \in matching : \A j \in matching : j <= k
    IN IF found # 0
       THEN [cs EXCEPT ![found] = Absorb(cs[found], item)]
       ELSE Append(cs, NewCluster(item))

\* one iteration of the for-loop of clusterItems
ClusterInto(cs, item) ==
    LET found == FindIndex([k \in 1..Len(cs) |-> ClusterMatches(cs[k], item)])
    IN IF found # 0
       THEN [cs EXCEPT ![found] = Absorb(cs[found], item)]
       ELSE Append(cs, NewCluster(item))

RECURSIVE clusterItems(_)
clusterItems(items) ==
    IF items = <<>> THEN <<>>
    ELSE ClusterInto(clusterItems(SubSeq(items, 1, Len(items) - 1)), items[Len(items)])

-----------------------------------------------------------------------------
(* toTodayJson, validateToday and writeArchive                             *)

\* the characters of the strings of the model in the order of their UTF-16 code units
CodeUnits ==
    <<" ", "!", "'", "(", ")", ",", "-", ".", "/">>
    \o <<"0", "1", "2", "3", "4", "5", "6", "7", "8", "9", ":", ";", "?">>
    \o UpperChars \o LowerChars

\* the place of every character of the model in CodeUnits, computed once
CodeUnitOf == [ch \in Range(CodeUnits) |-> CHOOSE k \in 1..Len(CodeUnits) : CodeUnits[k] = ch]
CodeUnit(ch) == CodeUnitOf[ch]

\* a < b on strings: the first differing code unit decides, a proper prefix is smaller
StringLess(a, b) ==
    LET x == Spell(a)
        y == Spell(b)
    IN \E k \in 1..(Len(x) + 1) :
          /\ \A m \in 1..(k - 1) : m <= Len(y) /\ x[m] = y[m]
          /\ \/ (k = Len(x) + 1 /\ Len(y) >= k)
             \/ (k <= Len(x) /\ k <= Len(y) /\ CodeUnit(x[k]) < CodeUnit(y[k]))

\* the characters of the strings of the model in the order of the root collation:
\* whitespace, punctuation, digits, letters (a letter's case is a lower level)
Collation ==
    <<" ", "-", ",", ";", ":", "!", "?", "/", ".", "'", "(", ")">>
    \o <<"0", "1", "2", "3", "4", "5", "6", "7", "8", "9">>
    \o LowerChars

\* the collation key of every character of the model, computed once
CollationKeys ==
    [ch \in Range(CodeUnits) |->
        CHOOSE k \in 1..Len(Collation) : Collation[k] = toLowerChar(ch)]
CollationKey(ch) == CollationKeys[ch]

\* a.localeCompare(b) < 0: the first differing collation key decides; with all keys
\* equal the first differing case decides, lowercase first
LocaleLess(a, b) ==
    LET x == Spell(a)
        y == Spell(b)
        sameKeys == Len(x) = Len(y)
                    /\ \A m \in 1..Len(x) : CollationKey(x[m]) = CollationKey(y[m])
    IN \/ \E k \in 1..(Len(x) + 1) :
             /\ \A m \in 1..(k - 1) : m <= Len(y) /\ CollationKey(x[m]) = CollationKey(y[m])
             /\ \/ (k = Len(x) + 1 /\ Len(y) >= k)
                \/ (k <= Len(x) /\ k <= Len(y)
                    /\ CollationKey(x[k]) < CollationKey(y[k]))
       \/ /\ sameKeys
          /\ \E k \in 1..Len(x) :
                /\ \A m \in 1..(k - 1) : x[m] = y[m]
                /\ x[k] # y[k]
                /\ x[k] = toLowerChar(x[k])

toCoverageBreadth(count) ==
    IF count >= 6 THEN "Broad" ELSE IF count >= 3 THEN "Medium" ELSE "Narrow"

\* the comparator (a, b) => (b.labels.reliability > a.labels.reliability ? 1 : -1)
CompareReliability(a, b) ==
    IF StringLess(a.labels.reliability, b.labels.reliability) THEN 1 ELSE -1

\* Array.prototype.sort of V8 on fewer than 64 elements: CountAndMakeRun first.
\* The length of the run that starts the array, idx being the next place to look at.
RECURSIVE CountRun(_, _, _)
CountRun(a, isDescending, idx) ==
    IF idx > Len(a) THEN Len(a)
    ELSE LET order == CompareReliability(a[idx], a[idx - 1])
         IN IF (isDescending /\ order >= 0) \/ (~isDescending /\ order < 0)
            THEN idx - 1
            ELSE CountRun(a, isDescending, idx + 1)

\* ReverseRange on the first n elements
ReverseRun(a, n) == [i \in 1..Len(a) |-> IF i <= n THEN a[n + 1 - i] ELSE a[i]]

\* the binary search of BinaryInsertionSort: the place of pivot in a[left..right-1]
RECURSIVE InsertionPoint(_, _, _, _)
InsertionPoint(a, pivot, left, right) ==
    IF left >= right THEN left
    ELSE LET mid == left + ((right - left) \div 2)
         IN IF CompareReliability(pivot, a[mid]) < 0
            THEN InsertionPoint(a, pivot, left, mid)
            ELSE InsertionPoint(a, pivot, mid + 1, right)

\* BinaryInsertionSort: the elements from start on are inserted one after the other
RECURSIVE BinaryInsertionSort(_, _)
BinaryInsertionSort(a, start) ==
    IF start > Len(a) THEN a
    ELSE LET pivot == a[start]
             left == InsertionPoint(a, pivot, 1, start)
             moved == SubSeq(a, 1, left - 1) \o <<pivot>> \o SubSeq(a, left, start - 1)
                      \o SubSeq(a, start + 1, Len(a))
         IN BinaryInsertionSort(moved, start + 1)

\* [...cluster.articles].sort((a, b) => (b.labels.reliability > a.labels.reliability ? 1 : -1))
SortByReliability(articles) ==
    IF Len(articles) < 2 THEN articles
    ELSE LET isDescending == CompareReliability(articles[2], articles[1]) < 0
             runLength == CountRun(articles, isDescending, 3)
             run == IF isDescending THEN ReverseRun(articles, runLength) ELSE articles
         IN BinaryInsertionSort(run, runLength + 1)

\* `cluster-${Math.random().toString(36).slice(2, 9)}`: the draws of Math.random of a
\* run, one for each cluster
RandomStreams == {"4fzzzxj", "k9q2m7c"}
RandomDraw(stream, index) == "cluster-" \o stream \o ToString(index)

\* new Date().toISOString()
IsoStrings == (60 :> "1970-01-03T12:00:00.000Z")
toISOString(time) == IsoStrings[time]

\* String.prototype.slice(0, n)
slice(string, n) == Join(Take(Spell(string), n))

RECURSIVE MapArticles(_)
\* cluster.articles.map((article) => ({ url, title, source_domain, timestamp, snippet, labels }))
MapArticles(articles) ==
    IF articles = <<>> THEN <<>>
    ELSE <<[url |-> Head(articles).url,
            title |-> Head(articles).title,
            source_domain |-> Head(articles).source_domain,
            timestamp |-> Head(articles).timestamp,
            snippet |-> Head(articles).snippet,
            labels |-> Head(articles).labels]>> \o MapArticles(Tail(articles))

\* the callback of the first map of toTodayJson; rank_score in thousandths
RankedCluster(c, index, stream) ==
    LET uniqueOutlets == Cardinality({a.source_domain : a \in Range(c.articles)})
        recency == Max(0, 72 - (now - c.updated_at))
        \* rank * 720
        rank == 7 * recency + 216 * uniqueOutlets
        best == SortByReliability(c.articles)[1]
    IN [cluster_id |-> RandomDraw(stream, index),
        rank_score |-> (2000 * rank + 720) \div 1440,
        title |-> c.title,
        topic_tags |-> Take(c.keywords, 3),
        updated_at |-> c.updated_at,
        coverage_breadth |-> toCoverageBreadth(uniqueOutlets),
        best_article |-> [url |-> best.url,
                          source_domain |-> best.source_domain,
                          image_url |-> "",
                          labels |-> best.labels,
                          trace_summary |-> <<"Picked ", best.source_domain,
                                              " based on reliability and recency among ",
                                              ToString(Len(c.articles)),
                                              " related reports.">>],
        articles |-> MapArticles(c.articles)]

\* the comparator of the sort of toTodayJson is negative: a goes before b
RankedBefore(a, b) ==
    \/ a.rank_score > b.rank_score
    \/ /\ a.rank_score = b.rank_score
       /\ \/ a.updated_at > b.updated_at
          \/ (a.updated_at = b.updated_at /\ LocaleLess(a.title, b.title))

\* sort (stable) with the comparator of toTodayJson
SortRanked(s) ==
    LET n == Len(s)
        place(i) == 1 + Cardinality({j \in 1..n :
                            RankedBefore(s[j], s[i]) \/ (~RankedBefore(s[i], s[j]) /\ j < i)})
    IN [p \in 1..n |-> s[CHOOSE i \in 1..n : place(i) = p]]

\* Math.ceil(count * tenths / 10)
CeilTenths(count, tenths) == (count * tenths + 9) \div 10

\* the callback of the last map of toTodayJson
BuildPriority(index, length) ==
    IF index < CeilTenths(length, 3) THEN "top"
    ELSE IF index < CeilTenths(length, 7) THEN "scan"
    ELSE "low"

RECURSIVE MapRanked(_, _, _)
\* clustered.map((cluster) => ...), the first map of toTodayJson
MapRanked(cs, done, stream) ==
    IF cs = <<>> THEN <<>>
    ELSE <<RankedCluster(Head(cs), done + 1, stream)>> \o MapRanked(Tail(cs), done + 1, stream)

RECURSIVE MapPriority(_, _, _)
\* .map((cluster, index, arr) => ({ ...cluster, priority })), the last map of toTodayJson
MapPriority(cs, index, length) ==
    IF cs = <<>> THEN <<>>
    ELSE <<[cluster_id |-> Head(cs).cluster_id,
            rank_score |-> Head(cs).rank_score,
            title |-> Head(cs).title,
            topic_tags |-> Head(cs).topic_tags,
            updated_at |-> Head(cs).updated_at,
            coverage_breadth |-> Head(cs).coverage_breadth,
            best_article |-> Head(cs).best_article,
            articles |-> Head(cs).articles,
            priority |-> BuildPriority(index, length)]>>
         \o MapPriority(Tail(cs), index + 1, length)

\* toTodayJson from the clusters clusterItems returned on
TodayOf(clustered, stream) ==
    CHOOSE result \in
        {[date |-> slice(toISOString(now), 10),
          generated_at |-> toISOString(now),
          clusters |-> MapPriority(sliced, 0, Len(sliced))]
           : sliced \in {Take(SortRanked(mapped), 40)
                            : mapped \in {MapRanked(clustered, 0, stream)}}} : TRUE

toTodayJson(items, stream) == TodayOf(clusterItems(dedupe(items)), stream)

\* /^\d{4}-\d{2}-\d{2}$/.test(date)
IsDate(date) ==
    LET s == Spell(date)
    IN /\ Len(s) = 10
       /\ \A i \in {1, 2, 3, 4, 6, 7, 9, 10} : s[i] \in DigitChars
       /\ s[5] = "-" /\ s[8] = "-"

\* Date.parse of the ISO strings of the model is a number
IsoParses(string) == \E time \in DOMAIN IsoStrings : IsoStrings[time] = string

\* the first check of validateToday that throws on clusters[index], "" if none does
ClusterError(c) ==
    IF "cluster_id" \notin DOMAIN c \/ c.cluster_id = "" THEN "cluster_id missing"
    ELSE IF "best_article" \notin DOMAIN c \/ "url" \notin DOMAIN c.best_article
            \/ c.best_article.url = "" THEN "best_article.url missing"
    ELSE IF "articles" \notin DOMAIN c THEN "articles missing"
    ELSE ""

\* validateToday with the forEach over the clusters left out
validateToday_SkipsClusters(p) ==
    IF "date" \notin DOMAIN p \/ p.date = "" \/ ~IsDate(p.date)
    THEN "Invalid date in today.json"
    ELSE IF "generated_at" \notin DOMAIN p \/ p.generated_at = ""
            \/ ~IsoParses(p.generated_at)
    THEN "Invalid generated_at in today.json"
    ELSE IF "clusters" \notin DOMAIN p THEN "clusters must be an array"
    ELSE ""

\* validateToday: the message of the error thrown, "" if none; a field that is
\* undefined, or not an array where one is asked for, is a field the record lacks
validateToday(p) ==
    IF "date" \notin DOMAIN p \/ p.date = "" \/ ~IsDate(p.date)
    THEN "Invalid date in today.json"
    ELSE IF "generated_at" \notin DOMAIN p \/ p.generated_at = ""
            \/ ~IsoParses(p.generated_at)
    THEN "Invalid generated_at in today.json"
    ELSE IF "clusters" \notin DOMAIN p THEN "clusters must be an array"
    ELSE IF \E i \in 1..Len(p.clusters) : ClusterError(p.clusters[i]) # ""
    THEN ClusterError(p.clusters[CHOOSE i \in 1..Len(p.clusters) :
                                    /\ ClusterError(p.clusters[i]) # ""
                                    /\ \A j \in 1..(i - 1) : ClusterError(p.clusters[j]) = ""])
    ELSE ""

\* Array.from(new Set([date, ...existingDates])).sort((a, b) => (a < b ? 1 : -1)):
\* the dates without repetition, the greatest string first
RECURSIVE SortDatesDescending(_)
SortDatesDescending(dates) ==
    IF dates = {} THEN <<>>
    ELSE LET top == CHOOSE d \in dates : \A e \in dates \ {d} : StringLess(e, d)
         IN <<top>> \o SortDatesDescending(dates \ {top})

-----------------------------------------------------------------------------
(* The build run: main() of scripts/build-today-json.mjs                   *)

\* the most records the feeds of one run hold together
MaxItems == 3

\* the as-of times of a run
AsOfTimes == {60}

\* the records parseItems finds in the fetched documents, as the four fields
\* firstMatch extracts ("" when no pattern matches)
RawRecords == {
    [link |-> "https://a.com/1", title |-> "Budget", description |-> "",
     pubDate |-> "Thu, 01 Jan 1970 00:00:00 GMT"],
    [link |-> "https://a.com/1?utm_source=rss#top", title |-> "BUDGET!", description |-> "",
     pubDate |-> "Thu, 01 Jan 1970 20:00:00 GMT"],
    [link |-> "https://www.b.com/2", title |-> "Budget bill", description |-> "Summary",
     pubDate |-> "Thu, 01 Jan 1970 20:00:00 GMT"],
    [link |-> "https://c.org/3", title |-> "Budget vote", description |-> "",
     pubDate |-> "Fri, 02 Jan 1970 16:00:00 GMT"],
    [link |-> "https://c.org/4", title |-> "BUDGET!", description |-> "",
     pubDate |-> "Fri, 02 Jan 1970 16:00:00 GMT"],
    [link |-> "https://www.b.com/5", title |-> "Tax", description |-> "",
     pubDate |-> ""],
    [link |-> "https://c.org/3", title |-> "War - AP", description |-> "",
     pubDate |-> "yesterday-ish"],
    [link |-> "", title |-> "Budget", description |-> "",
     pubDate |-> "Thu, 01 Jan 1970 00:00:00 GMT"],
    [link |-> "https://www.b.com/2", title |-> "", description |-> "",
     pubDate |-> "not a date"] }

SeqsUpTo(S, n) == UNION {[1..k -> S] : k \in 0..n}

\* public/data before the run: nothing published yet, or the files of the day before,
\* or those of an earlier run of the same day
DayBefore ==
    [today |-> "previous", sources |-> "previous",
     archive |-> ("1970-01-02" :> "previous"), index |-> <<"1970-01-02">>]
PublishedBefore ==
    {[today |-> "absent", sources |-> "absent", archive |-> <<>>, index |-> <<>>],
     DayBefore,
     [today |-> "previous", sources |-> "previous",
      archive |-> ("1970-01-03" :> "previous") @@ ("1970-01-01" :> "previous"),
      index |-> <<"1970-01-03", "1970-01-01">>]}

Idle == "idle"
BuildIdle ==
    /\ feedIdx = 0 /\ xml = <<>> /\ allItems = <<>> /\ failures = <<>>
    /\ deduped = <<>> /\ cursor = 0 /\ clusters = <<>>
OutputIdle == payload = Idle /\ files = Idle
ChooseIdle == cluster = Idle /\ chosen = Idle
RankIdle == data = Idle /\ derived = Idle
AppIdle == urlArg = Idle /\ urlResult = Idle /\ archive = Idle /\ detail = Idle

Init ==
    /\ now \in AsOfTimes
    /\ pc = "fetch"
    /\ feedIdx = 1
    /\ xml = <<>>
    /\ allItems = <<>>
    /\ failures = <<>>
    /\ deduped = <<>>
    /\ cursor = 0
    /\ clusters = <<>>
    /\ payload = Idle
    /\ files = DayBefore
    /\ settings = Idle
    /\ ChooseIdle
    /\ RankIdle
    /\ again = Idle
    /\ AppIdle

\* await fetchXml(feed) returns a document
FetchXml ==
    /\ pc = "fetch"
    /\ feedIdx <= Len(Feeds)
    /\ \E doc \in SeqsUpTo(RawRecords, MaxItems - Len(allItems)) : xml' = doc
    /\ pc' = "parse"
    /\ UNCHANGED <<now, feedIdx, allItems, failures, deduped, cursor, clusters,
                   settings, cluster, chosen, data, derived, payload, files, again,
                   urlArg, urlResult, archive, detail>>

\* the messages of the errors fetchXml throws
FetchErrors == {"HTTP 503"}

\* FetchFails with no try/catch around the feed: the error ends main()
FetchFails_AbortsRun ==
    /\ pc = "fetch"
    /\ feedIdx <= Len(Feeds)
    /\ pc' = "failed"
    /\ UNCHANGED <<now, feedIdx, xml, allItems, failures, deduped, cursor, clusters,
                   settings, cluster, chosen, data, derived, payload, files, again,
                   urlArg, urlResult, archive, detail>>

\* await fetchXml(feed) throws (timeout, HTTP status, missing mock file): the catch block
FetchFails ==
    /\ pc = "fetch"
    /\ feedIdx <= Len(Feeds)
    /\ \E message \in FetchErrors :
          failures' = Append(failures, [feed |-> Feeds[feedIdx].name, message |-> message])
    /\ feedIdx' = feedIdx + 1
    /\ UNCHANGED <<now, pc, xml, allItems, deduped, cursor, clusters,
                   settings, cluster, chosen, data, derived, payload, files, again,
                   urlArg, urlResult, archive, detail>>

\* parseItems(xml).map(parseRssItem).filter(Boolean), then allItems.push, or the catch
\* block when parseRssItem throws
ParseFeed ==
    /\ pc = "parse"
    /\ LET feed == Feeds[feedIdx]
           parsed == [i \in 1..Len(xml) |-> parseRssItem(xml[i], feed)]
           IsItem(r) == r.kind = "item"
           kept == SelectSeq(parsed, IsItem)
           parsedItems == [i \in 1..Len(kept) |-> kept[i].item]
       IN IF \E i \in 1..Len(parsed) : parsed[i].kind = "throw"
          THEN /\ failures' = Append(failures, [feed |-> feed.name, message |-> "Invalid time value"])
               /\ UNCHANGED allItems
          ELSE /\ allItems' = allItems \o parsedItems
               /\ UNCHANGED failures
    /\ feedIdx' = feedIdx + 1
    /\ pc' = "fetch"
    /\ xml' = <<>>
    /\ UNCHANGED <<now, deduped, cursor, clusters, settings, cluster, chosen, data, derived, payload, files, again,
                   urlArg, urlResult, archive, detail>>

\* AllFeedsFailed with the throw left out: toTodayJson is called on no items
AllFeedsFailed_PublishesEmpty ==
    /\ pc = "fetch"
    /\ feedIdx > Len(Feeds)
    /\ allItems = <<>>
    /\ \E stream \in RandomStreams : payload' = TodayOf(<<>>, stream)
    /\ pc' = "validate"
    /\ UNCHANGED <<now, feedIdx, xml, allItems, failures, deduped, cursor, clusters,
                   settings, cluster, chosen, data, derived, files, again,
                   urlArg, urlResult, archive, detail>>

\* if (allItems.length === 0) throw new Error("All feeds failed. ...")
AllFeedsFailed ==
    /\ pc = "fetch"
    /\ feedIdx > Len(Feeds)
    /\ allItems = <<>>
    /\ pc' = "failed"
    /\ UNCHANGED <<now, feedIdx, xml, allItems, failures, deduped, cursor, clusters,
                   settings, cluster, chosen, data, derived, payload, files, again,
                   urlArg, urlResult, archive, detail>>

\* toTodayJson(allItems): dedupe(items), then the call of clusterItems
Dedupe ==
    /\ pc = "fetch"
    /\ feedIdx > Len(Feeds)
    /\ allItems # <<>>
    /\ deduped' = dedupe(allItems)
    /\ clusters' = <<>>
    /\ cursor' = 1
    /\ pc' = "cluster"
    /\ UNCHANGED <<now, feedIdx, xml, allItems, failures,
                   settings, cluster, chosen, data, derived, payload, files, again,
                   urlArg, urlResult, archive, detail>>

\* one iteration of for (const item of items) in clusterItems
ClusterStep ==
    /\ pc = "cluster"
    /\ cursor <= Len(deduped)
    /\ clusters' = ClusterInto(clusters, deduped[cursor])
    /\ cursor' = cursor + 1
    /\ UNCHANGED <<now, pc, feedIdx, xml, allItems, failures, deduped,
                   settings, cluster, chosen, data, derived, payload, files, again,
                   urlArg, urlResult, archive, detail>>

\* return clusters
ClusterReturn ==
    /\ pc = "cluster"
    /\ cursor > Len(deduped)
    /\ pc' = "clustered"
    /\ UNCHANGED <<now, feedIdx, xml, allItems, failures, deduped, cursor, clusters,
                   settings, cluster, chosen, data, derived, payload, files, again,
                   urlArg, urlResult, archive, detail>>

\* the rest of toTodayJson: rank, sort, slice and label the clusters
BuildPayload ==
    /\ pc = "clustered"
    /\ \E stream \in RandomStreams : payload' = TodayOf(clusters, stream)
    /\ pc' = "validate"
    /\ UNCHANGED <<now, feedIdx, xml, allItems, failures, deduped, cursor, clusters,
                   settings, cluster, chosen, data, derived, files, again,
                   urlArg, urlResult, archive, detail>>

\* validateToday(payload) returns
Validate ==
    /\ pc = "validate"
    /\ validateToday(payload) = ""
    /\ pc' = "writeToday"
    /\ UNCHANGED <<now, feedIdx, xml, allItems, failures, deduped, cursor, clusters,
                   settings, cluster, chosen, data, derived, payload, files, again,
                   urlArg, urlResult, archive, detail>>

\* validateToday(payload) throws: main() rejects
ValidateThrows ==
    /\ pc = "validate"
    /\ validateToday(payload) # ""
    /\ pc' = "failed"
    /\ UNCHANGED <<now, feedIdx, xml, allItems, failures, deduped, cursor, clusters,
                   settings, cluster, chosen, data, derived, payload, files, again,
                   urlArg, urlResult, archive, detail>>

\* await writeFile(OUTPUT_PATH, ...)
WriteToday ==
    /\ pc = "writeToday"
    /\ files' = [files EXCEPT !.today = "current"]
    /\ pc' = "writeSources"
    /\ UNCHANGED <<now, feedIdx, xml, allItems, failures, deduped, cursor, clusters,
                   settings, cluster, chosen, data, derived, payload, again,
                   urlArg, urlResult, archive, detail>>

\* await writeFile(SOURCES_OUTPUT_PATH, ...)
WriteSources ==
    /\ pc = "writeSources"
    /\ files' = [files EXCEPT !.sources = "current"]
    /\ pc' = "writeArchive"
    /\ UNCHANGED <<now, feedIdx, xml, allItems, failures, deduped, cursor, clusters,
                   settings, cluster, chosen, data, derived, payload, again,
                   urlArg, urlResult, archive, detail>>

\* writeArchive: await writeFile(new URL("today.json", archiveDir), ...)
WriteArchive ==
    /\ pc = "writeArchive"
    /\ files' = [files EXCEPT !.archive = (payload.date :> "current") @@ @]
    /\ pc' = "writeIndex"
    /\ UNCHANGED <<now, feedIdx, xml, allItems, failures, deduped, cursor, clusters,
                   settings, cluster, chosen, data, derived, payload, again,
                   urlArg, urlResult, archive, detail>>

\* writeArchive: await writeFile(INDEX_OUTPUT_PATH, ...)
WriteIndex ==
    /\ pc = "writeIndex"
    /\ files' = [files EXCEPT
                    !.index = SortDatesDescending({payload.date} \cup Range(@))]
    /\ pc' = "done"
    /\ UNCHANGED <<now, feedIdx, xml, allItems, failures, deduped, cursor, clusters,
                   settings, cluster, chosen, data, derived, payload, again,
                   urlArg, urlResult, archive, detail>>

\* main(); a payload of toTodayJson passes validateToday (PayloadPasses), so the
\* throw of validateToday is a step of SpecValidate only
Next ==
    \/ FetchXml
    \/ FetchFails
    \/ ParseFeed
    \/ AllFeedsFailed
    \/ Dedupe
    \/ ClusterStep
    \/ ClusterReturn
    \/ BuildPayload
    \/ Validate
    \/ WriteToday
    \/ WriteSources
    \/ WriteArchive
    \/ WriteIndex

Spec == Init /\ [][Next]_vars

\* every payload main() hands to validateToday passes it
PayloadPasses == pc = "validate" => validateToday(payload) = ""

-----------------------------------------------------------------------------
(* chooseBestArticle (src/utils/scoring.ts)                                *)
(* Scores are kept in units of 1/240: freshness is a multiple of 1/24 on   *)
(* whole hours, weights and penalties are multiples of 1/10.               *)

\* a ?? default on a key of a record or map
Lookup(map, key, default) == IF key \in DOMAIN map THEN map[key] ELSE default

reliabilityValue(value) ==
    IF value = "High" THEN 3 ELSE IF value = "Med" THEN 2 ELSE 1

sourceWeightValue(weight) ==
    IF weight = "boost" THEN 1 ELSE IF weight = "hide" THEN -3 ELSE 0

WordChars == Range(UpperChars) \cup Range(LowerChars) \cup DigitChars \cup {"_"}

SpamWords == {
    <<"s", "h", "o", "c", "k", "i", "n", "g">>,
    <<"e", "x", "p", "l", "o", "s", "i", "v", "e">>,
    <<"s", "t", "u", "n", "n", "i", "n", "g">>,
    <<"b", "o", "m", "b", "s", "h", "e", "l", "l">>,
    <<"e", "x", "c", "l", "u", "s", "i", "v", "e">> }

\* /\b(SHOCKING|EXPLOSIVE|STUNNING|BOMBSHELL|EXCLUSIVE)\b/i.test(title)
HasSpamWord(chars) ==
    \E w \in SpamWords : \E j \in 1..Len(chars) :
        /\ StartsAt(toLowerCase(chars), j, w)
        /\ (j = 1 \/ chars[j - 1] \notin WordChars)
        /\ (j + Len(w) > Len(chars) \/ chars[j + Len(w)] \notin WordChars)

\* the penalty of a title, in tenths
SensationalismOf(chars) ==
    (IF HasSpamWord(chars) THEN 3 ELSE 0)
    + (IF Cardinality({i \in 1..Len(chars) : chars[i] = "!"}) > 1 THEN 2 ELSE 0)
    + (IF Len(chars) >= 18 /\ \A i \in 1..Len(chars) :
                                  chars[i] \in Range(UpperChars) \cup SpaceChars
       THEN 3 ELSE 0)

\* sensationalismPenalty of every string of the model, computed once
SensationalismPenalties == [title \in DOMAIN Spelling |-> SensationalismOf(Spell(title))]

sensationalismPenalty(title) == SensationalismPenalties[title]

\* ScoreEntry with a source weight of hide left out of blocked
ScoreEntry_HideWeightNotBlocking(article, s) ==
    LET sourceWeight == Lookup(s.sourceWeights, article.source_domain, "normal")
        reliability == reliabilityValue(article.labels.reliability)
        freshness == Max(0, 48 - (now - article.timestamp)) * 10
        sensational == sensationalismPenalty(article.title)
        paywallPenalty ==
            IF s.paywallMode = "hide" /\ article.labels.paywall = "Yes" THEN -100
            ELSE IF s.paywallMode = "downrank" /\ article.labels.paywall = "Yes" THEN -1
            ELSE 0
        blocked ==
            \/ reliability < reliabilityValue(s.minReliability)
            \/ (s.paywallMode = "hide" /\ article.labels.paywall = "Yes")
        regionBoost == Lookup(s.regionWeights, Lookup(article.labels, "region", "Global"), 10)
    IN [article |-> article,
        blocked |-> blocked,
        score |-> reliability * 3 * 240 + sourceWeightValue(sourceWeight) * 240 + freshness
                  + regionBoost * 24 - sensational * 24 + paywallPenalty * 240]

\* ScoreEntry with paywallMode hide handled like allow
ScoreEntry_HideModeIgnored(article, s) ==
    LET sourceWeight == Lookup(s.sourceWeights, article.source_domain, "normal")
        reliability == reliabilityValue(article.labels.reliability)
        freshness == Max(0, 48 - (now - article.timestamp)) * 10
        sensational == sensationalismPenalty(article.title)
        paywallPenalty ==
            IF s.paywallMode = "downrank" /\ article.labels.paywall = "Yes" THEN -1 ELSE 0
        blocked ==
            \/ reliability < reliabilityValue(s.minReliability)
            \/ sourceWeight = "hide"
        regionBoost == Lookup(s.regionWeights, Lookup(article.labels, "region", "Global"), 10)
    IN [article |-> article,
        blocked |-> blocked,
        score |-> reliability * 3 * 240 + sourceWeightValue(sourceWeight) * 240 + freshness
                  + regionBoost * 24 - sensational * 24 + paywallPenalty * 240]

\* the callback of cluster.articles.map(...): the article, blocked, and score * 240
ScoreEntry(article, s) ==
    LET sourceWeight == Lookup(s.sourceWeights, article.source_domain, "normal")
        reliability == reliabilityValue(article.labels.reliability)
        freshness == Max(0, 48 - (now - article.timestamp)) * 10
        sensational == sensationalismPenalty(article.title)
        paywallPenalty ==
            IF s.paywallMode = "hide" /\ article.labels.paywall = "Yes" THEN -100
            ELSE IF s.paywallMode = "downrank" /\ article.labels.paywall = "Yes" THEN -1
            ELSE 0
        blocked ==
            \/ reliability < reliabilityValue(s.minReliability)
            \/ sourceWeight = "hide"
            \/ (s.paywallMode = "hide" /\ article.labels.paywall = "Yes")
        regionBoost == Lookup(s.regionWeights, Lookup(article.labels, "region", "Global"), 10)
    IN [article |-> article,
        blocked |-> blocked,
        score |-> reliability * 3 * 240 + sourceWeightValue(sourceWeight) * 240 + freshness
                  + regionBoost * 24 - sensational * 24 + paywallPenalty * 240]

\* Array.prototype.sort((a, b) => keys of b - keys of a): stable, descending;
\* keys[i] is the sort key of s[i]
SortDescending(s, keys) ==
    LET n == Len(s)
        place(i) == 1 + Cardinality({j \in 1..n :
                            keys[j] > keys[i] \/ (keys[j] = keys[i] /\ j < i)})
    IN [p \in 1..n |-> s[CHOOSE i \in 1..n : place(i) = p]]

\* BestEntry with the top-scored entry taken, blocked or not
BestEntry_IgnoresBlocked(scored) == scored[1]

\* scored.find((entry) => !entry.blocked) ?? scored[0]
BestEntry(scored) ==
    LET found == FindIndex([i \in 1..Len(scored) |-> ~scored[i].blocked])
    IN IF found # 0 THEN scored[found] ELSE scored[1]

BlockedReason == "Blocked by current settings (reliability/paywall/source weight)."
OutscoredReason == "Scored lower due to freshness, source preference, or headline quality."

\* Trace with the paywall mode left out of the text
Trace_WithoutMode(bestEntry, s) ==
    IF bestEntry.blocked
    THEN <<"Fallback pick: nothing passed your settings, so highest available reliability was selected.">>
    ELSE <<"Best Source: ", bestEntry.article.source_domain,
           " (reliability ", bestEntry.article.labels.reliability,
           ", paywall ", bestEntry.article.labels.paywall, ").">>

\* the pieces of the trace, in order: the trace is their concatenation
Trace(bestEntry, s) ==
    IF bestEntry.blocked
    THEN <<"Fallback pick: nothing passed your settings, so highest available reliability was selected.">>
    ELSE <<"Best Source: ", bestEntry.article.source_domain,
           " (reliability ", bestEntry.article.labels.reliability,
           ", paywall ", bestEntry.article.labels.paywall,
           ", paywall mode ", s.paywallMode, ").">>

\* chooseBestArticle with every other candidate listed as an alternative
chooseBestArticle_AllOthers(c, s) ==
    LET entries == [i \in 1..Len(c.articles) |-> ScoreEntry(c.articles[i], s)]
        scored == SortDescending(entries, [i \in 1..Len(entries) |-> entries[i].score])
        bestEntry == BestEntry(scored)
        NotBest(entry) == entry.article.url # bestEntry.article.url
        others == SelectSeq(scored, NotBest)
        alternatives ==
            [i \in 1..Len(others) |->
                [article |-> others[i].article,
                 reason |-> IF others[i].blocked THEN BlockedReason ELSE OutscoredReason]]
    IN [best |-> bestEntry.article, trace |-> Trace(bestEntry, s), alternatives |-> alternatives]

chooseBestArticle(c, s) ==
    LET entries == [i \in 1..Len(c.articles) |-> ScoreEntry(c.articles[i], s)]
        scored == SortDescending(entries, [i \in 1..Len(entries) |-> entries[i].score])
        bestEntry == BestEntry(scored)
        NotBest(entry) == entry.article.url # bestEntry.article.url
        others == Take(SelectSeq(scored, NotBest), 3)
        alternatives ==
            [i \in 1..Len(others) |->
                [article |-> others[i].article,
                 reason |-> IF others[i].blocked THEN BlockedReason ELSE OutscoredReason]]
    IN [best |-> bestEntry.article, trace |-> Trace(bestEntry, s), alternatives |-> alternatives]

-----------------------------------------------------------------------------
(* Claims on the build run (specification Spec)                            *)

Clustering == pc \in {"cluster", "clustered"}

\* C1: dedupe keeps, for every url of the input, exactly one item, and it is the
\* first item of the input that has this url.
C1_DedupeKeepsFirstSeen ==
    Clustering =>
        \A i \in 1..Len(allItems) :
            LET url == allItems[i].url
                first == CHOOSE k \in 1..Len(allItems) :
                            /\ allItems[k].url = url
                            /\ \A j \in 1..(k - 1) : allItems[j].url # url
                kept == {k \in 1..Len(deduped) : deduped[k].url = url}
            IN /\ Cardinality(kept) = 1
               /\ \A k \in kept : deduped[k] = allItems[first]

\* the places of the clusters' article lists
ArticleSlots ==
    {slot \in (1..Len(clusters)) \X (1..Len(deduped)) :
        slot[2] <= Len(clusters[slot[1]].articles)}

\* C2: every cluster has at least one article, and every item clusterItems has
\* processed is in the article lists of the clusters exactly once, with nothing else
\* in them.
C2_ClustersPartitionInput ==
    Clustering =>
        /\ \A k \in 1..Len(clusters) : Len(clusters[k].articles) >= 1
        /\ \A k \in 1..Len(clusters) : Len(clusters[k].articles) <= Len(deduped)
        /\ Cardinality(ArticleSlots) = cursor - 1
        /\ \A i \in 1..(cursor - 1) :
              Cardinality({slot \in ArticleSlots :
                              clusters[slot[1]].articles[slot[2]] = deduped[i]}) = 1

\* C2 witness: three items were clustered into two clusters
C2_Witness ==
    /\ pc = "clustered"
    /\ Len(deduped) = 3
    /\ Len(clusters) = 2

\* C8, the admission rule stated on its own: within 24 hours of the cluster's
\* updated_at, and the same normalized title or a keyword Jaccard overlap >= 0.45
C8_Eligible(c, item) ==
    LET A == Range(c.keywords)
        B == Range(item.keywords)
    IN /\ c.updated_at - item.timestamp <= 24
       /\ item.timestamp - c.updated_at <= 24
       /\ \/ c.normalized_title = item.normalized_title
          \/ /\ A \cup B # {}
             /\ 100 * Cardinality(A \cap B) >= 45 * Cardinality(A \cup B)

\* C8: every step of clusterItems takes the next item of the input; the item is
\* appended to the first cluster, in creation order, that is eligible at that
\* moment, the other clusters staying as they are; it starts a new singleton
\* cluster seeded with its title, normalized title, keywords and timestamp exactly
\* when no cluster is eligible.
C8_FirstEligibleAbsorbs ==
    [][(pc = "cluster" /\ cursor <= Len(deduped)) =>
        LET item == deduped[cursor]
            eligible == {k \in 1..Len(clusters) : C8_Eligible(clusters[k], item)}
        IN /\ cursor' = cursor + 1
           /\ deduped' = deduped
           /\ IF eligible = {}
              THEN clusters' = Append(clusters,
                        [normalized_title |-> item.normalized_title,
                         title |-> item.title,
                         updated_at |-> item.timestamp,
                         keywords |-> item.keywords,
                         articles |-> <<item>>])
              ELSE LET first == CHOOSE k \in eligible : \A j \in eligible : k <= j
                   IN /\ Len(clusters') = Len(clusters)
                      /\ clusters'[first].articles = Append(clusters[first].articles, item)
                      /\ \A k \in (1..Len(clusters)) \ {first} : clusters'[k] = clusters[k]
      ]_vars

\* C8 witness: the third item was eligible for both clusters and went to the first;
\* the second item was eligible for none and started a cluster of its own
C8_Witness ==
    /\ pc = "cluster"
    /\ cursor = 4
    /\ Len(clusters) = 2
    /\ clusters[1].articles = <<deduped[1], deduped[3]>>
    /\ clusters[2].articles = <<deduped[2]>>
    /\ C8_Eligible(clusters[2], deduped[3])

MaxTimestamp(articles) ==
    CHOOSE t \in {articles[i].timestamp : i \in 1..Len(articles)} :
        \A i \in 1..Len(articles) : articles[i].timestamp <= t

\* C9: each cluster's updated_at is the maximum timestamp of its member articles.
C9_UpdatedAtIsMaxTimestamp ==
    Clustering =>
        \A k \in 1..Len(clusters) : clusters[k].updated_at = MaxTimestamp(clusters[k].articles)

\* C9 witness: a cluster absorbed an item older than its updated_at
C9_Witness ==
    /\ Clustering
    /\ \E k \in 1..Len(clusters) :
          /\ Len(clusters[k].articles) >= 2
          /\ clusters[k].articles[Len(clusters[k].articles)].timestamp < clusters[k].updated_at

\* C10: a record with a url and a title whose date field is absent or unparseable
\* yields an item whose timestamp is the ingestion time; no error is raised.
C10_BadDateResolvesToNow ==
    pc = "parse" =>
        \A i \in 1..Len(xml) :
            (/\ xml[i].link # ""
             /\ xml[i].title # ""
             /\ xml[i].pubDate \notin DOMAIN DateTable)
            => /\ parseRssItem(xml[i], Feeds[feedIdx]).kind = "item"
               /\ parseRssItem(xml[i], Feeds[feedIdx]).item.timestamp = now

\* a record with a url, a title and a date that is absent or parses
C11_WellFormed(record) ==
    record.link # "" /\ record.title # "" /\ NewDate(record.pubDate).valid

\* C11: a malformed record of a feed (no url, no title, an invalid date) is dropped
\* on its own: every well-formed record of the same feed still reaches allItems.
C11_MalformedRecordDroppedAlone ==
    [][pc = "parse" =>
        \A i \in 1..Len(xml) :
            C11_WellFormed(xml[i]) =>
                \E k \in (Len(allItems) + 1)..Len(allItems') :
                    /\ allItems'[k].url = canonicalUrl(xml[i].link)
                    /\ allItems'[k].title = xml[i].title]_vars

\* the for-loop of main() is over and no item was ingested
C12_NothingIngested == feedIdx > Len(Feeds) /\ allItems = <<>>

\* C12: a run that ingested no item ends in an error, and today.json, sources.json,
\* the archive copy and index.json stay as they were published before.
C12_NoItemsNoOutput ==
    /\ [](C12_NothingIngested => (pc \in {"fetch", "failed"} /\ files = DayBefore))
    /\ [][C12_NothingIngested => pc' = "failed"]_vars

\* C12 witness: every feed failed, the run ended in the error, the files are untouched
C12_Witness ==
    /\ pc = "failed"
    /\ Len(failures) = Len(Feeds)
    /\ allItems = <<>>
    /\ files = DayBefore

\* the feeds whose fetch failed / whose failure of any kind was recorded
C13_FetchFailed == {failures[i].feed : i \in {k \in 1..Len(failures) : failures[k].message \in FetchErrors}}
C13_Failed == {failures[i].feed : i \in 1..Len(failures)}

\* the feed names of a list of failures or items are in the configured order of the feeds
C13_FeedIndex(name) == CHOOSE i \in 1..Len(Feeds) : Feeds[i].name = name
C13_InFeedOrder(names) ==
    \A i, j \in 1..Len(names) : i < j => C13_FeedIndex(names[i]) <= C13_FeedIndex(names[j])

\* the items parseRssItem yields for the records of a document, in order
C13_ItemsOf(doc, feed) ==
    LET parsed == [i \in 1..Len(doc) |-> parseRssItem(doc[i], feed)]
        IsItem(r) == r.kind = "item"
        kept == SelectSeq(parsed, IsItem)
    IN [i \in 1..Len(kept) |-> kept[i].item]

\* the articles of the payload are the items of allItems, one for each url
C13_PayloadFrom(items) ==
    LET articles == UNION {Range(payload.clusters[k].articles) : k \in 1..Len(payload.clusters)}
    IN /\ {a.url : a \in articles} = {item.url : item \in Range(items)}
       /\ Cardinality(articles) = Cardinality({item.url : item \in Range(items)})

\* what C13 says of failures and of the order of the feeds, in both its forms: a
\* failure is recorded and the loop goes on with the next feed, items untouched
C13_FailuresRecorded ==
    /\ [](/\ C13_InFeedOrder([i \in 1..Len(failures) |-> failures[i].feed])
          /\ C13_InFeedOrder([i \in 1..Len(allItems) |-> allItems[i].feed_name])
          /\ Len(failures) <= Len(Feeds))
    /\ [][Len(failures') > Len(failures) =>
            /\ failures' = Append(failures, failures'[Len(failures')])
            /\ failures'[Len(failures')].feed = Feeds[feedIdx].name
            /\ feedIdx' = feedIdx + 1
            /\ allItems' = allItems
            /\ pc' = "fetch"]_vars

C23_FeedOf(item) == Feeds[CHOOSE i \in 1..Len(Feeds) : Feeds[i].name = item.feed_name]

\* the entries of the source table for the domain of an item
C23_Entries(item) == {i \in 1..Len(Sources) : Sources[i].domain = item.source_domain}

\* the bucket of a score: High from 80, Med from 60, Low below
C23_Bucket(score) ==
    CASE score >= 80 -> "High"
      [] score >= 60 /\ score < 80 -> "Med"
      [] OTHER -> "Low"

\* C23: the reliability of an item is the bucket of its source entry's score on an
\* exact domain match, otherwise the default reliability of the owning feed when the
\* feed declares one, otherwise the bucket of 65.
C23_ReliabilityResolution ==
    \A n \in 1..Len(allItems) :
        LET item == allItems[n]
            feed == C23_FeedOf(item)
        IN item.labels.reliability =
              (IF C23_Entries(item) # {}
               THEN C23_Bucket(Sources[CHOOSE i \in C23_Entries(item) : TRUE].reliability_score)
               ELSE IF "reliability" \in DOMAIN feed THEN feed.reliability
               ELSE C23_Bucket(65))

-----------------------------------------------------------------------------
(* parseRssItem on the records of one feed document (specification         *)
(* SpecParse)                                                              *)

\* titles as firstMatch returns them
ParseTitles ==
    {"Senate Passes Budget Bill - Reuters", "Budget - approved by Senate",
     "Stocks: markets rally, then fall!",
     "Senate passes budget bill after long night session with narrow vote margin",
     "War - AP", "Budget bill", "Tax", ""}

\* links as firstMatch returns them
ParseLinks == DOMAIN UrlTable \cup {""}

\* the records a feed document can hold
ParseRecords ==
    {[link |-> link, title |-> title, description |-> "", pubDate |-> pubDate] :
        link \in ParseLinks, title \in ParseTitles,
        pubDate \in {"", "Thu, 01 Jan 1970 20:00:00 GMT", "not a date"}}

InitParse ==
    /\ now \in AsOfTimes
    /\ pc = "parse"
    /\ feedIdx \in 1..Len(Feeds)
    /\ xml \in {<<record>> : record \in ParseRecords}
    /\ allItems = <<>> /\ failures = <<>>
    /\ deduped = <<>> /\ cursor = 0 /\ clusters = <<>>
    /\ OutputIdle
    /\ settings = Idle
    /\ ChooseIdle
    /\ RankIdle
    /\ again = Idle
    /\ AppIdle

NextParse == ParseFeed

SpecParse == InitParse /\ [][NextParse]_vars

-----------------------------------------------------------------------------
(* Claims on parseRssItem (specification SpecParse)                        *)

\* the maximal runs of lowercase letters and digits of a character sequence
RECURSIVE C24_Runs(_, _)
C24_Runs(s, run) ==
    IF s = <<>> THEN (IF run = <<>> THEN <<>> ELSE <<run>>)
    ELSE IF Head(s) \in Range(LowerChars) \cup DigitChars
         THEN C24_Runs(Tail(s), Append(run, Head(s)))
         ELSE (IF run = <<>> THEN <<>> ELSE <<run>>) \o C24_Runs(Tail(s), <<>>)

\* the title ends at position i - 1 and a wire-service suffix follows: a dash, the
\* name of a wire service, and nothing after it
C24_SuffixAt(s, i) ==
    /\ s[i] \in DashChars
    /\ \E w \in WireServices : \E j \in (i + 1)..Len(s) :
          /\ \A m \in (i + 1)..(j - 1) : s[m] = " "
          /\ StartsAt(toLowerCase(s), j, w)
          /\ \A m \in (j + Len(w))..Len(s) : s[m] = " "

\* the title without its trailing wire-service suffix, if it carries one
C24_Body(s) ==
    IF \E i \in 1..Len(s) : C24_SuffixAt(s, i)
    THEN SubSeq(s, 1, (CHOOSE i \in 1..Len(s) : C24_SuffixAt(s, i)) - 1)
    ELSE s

\* the words of the title, as character sequences: lowercased, punctuation
\* stripped, the suffix left out
C24_Words(title) == C24_Runs(toLowerCase(C24_Body(Spell(title))), <<>>)

C24_IsLong(word) == Len(word) >= 4

C24_Strings(words) == [i \in 1..Len(words) |-> Join(words[i])]

\* C24: the normalized title is the lowercased title with punctuation stripped and
\* only a trailing wire-service suffix removed, so that every word of a title
\* without such a suffix is preserved; the keywords are its tokens longer than 3
\* characters, in order, at most 8.
C24_NormalizedTitleKeepsWords ==
    \A n \in 1..Len(allItems) :
        LET item == allItems[n]
            words == C24_Words(item.title)
            long == SelectSeq(words, C24_IsLong)
        IN /\ item.normalized_title = JoinWith(C24_Strings(words), " ")
           /\ item.keywords = C24_Strings(SubSeq(long, 1, Min(8, Len(long))))

\* the example of C24: "Senate Passes Budget Bill - Reuters"
C24_Example ==
    \A n \in 1..Len(allItems) :
        allItems[n].title = "Senate Passes Budget Bill - Reuters" =>
            /\ allItems[n].normalized_title = "senate passes budget bill"
            /\ allItems[n].keywords = <<"senate", "passes", "budget", "bill">>

-----------------------------------------------------------------------------
(* canonicalUrl on any string (specification SpecUrl)                      *)

\* strings that do not parse as a URL
NotUrls == {"not a url", "a.com/1"}

\* a string with whitespace before it, after it, or both
Padded(string) == {string, " " \o string, string \o " ", " " \o string \o " "}

\* the arguments of canonicalUrl
UrlInputs == UNION {Padded(string) : string \in DOMAIN UrlTable \cup NotUrls}

InitUrl ==
    /\ now \in AsOfTimes
    /\ pc = "url"
    /\ BuildIdle
    /\ OutputIdle
    /\ settings = Idle
    /\ ChooseIdle
    /\ RankIdle
    /\ again = Idle
    /\ urlArg \in UrlInputs
    /\ urlResult = Idle
    /\ archive = Idle
    /\ detail = Idle

\* const canonical = canonicalUrl(url)
Canonicalize ==
    /\ pc = "url"
    /\ pc' = "canonical"
    /\ urlResult' = canonicalUrl(urlArg)
    /\ UNCHANGED <<now, feedIdx, xml, allItems, failures, deduped, cursor, clusters,
                   cluster, settings, chosen, data, derived, payload, files, again,
                   urlArg, archive, detail>>

\* canonicalUrl applied to its own result
CanonicalizeAgain ==
    /\ pc = "canonical"
    /\ pc' = "recanonical"
    /\ again' = canonicalUrl(urlResult)
    /\ UNCHANGED <<now, feedIdx, xml, allItems, failures, deduped, cursor, clusters,
                   cluster, settings, chosen, data, derived, payload, files,
                   urlArg, urlResult, archive, detail>>

NextUrl ==
    \/ Canonicalize
    \/ CanonicalizeAgain

SpecUrl == InitUrl /\ [][NextUrl]_vars

-----------------------------------------------------------------------------
(* Claims on canonicalUrl (specification SpecUrl)                          *)

C25_Tracking ==
    {"utm_source", "utm_medium", "utm_campaign", "utm_term", "utm_content", "gclid"}

\* the string without the whitespace around it
C25_Trim(string) == CHOOSE core \in DOMAIN UrlTable \cup NotUrls : string \in Padded(core)

\* the string parses as a URL
C25_Parses(string) == C25_Trim(string) \in DOMAIN UrlTable

\* the parameters of a parsed URL that are not tracking parameters, in order
C25_Kept(string) ==
    LET query == UrlTable[C25_Trim(string)].query
        Keep(param) == param.key \notin C25_Tracking
    IN SelectSeq(query, Keep)

\* two URLs differ in nothing but their fragment and their tracking parameters
C25_SameButTracking(a, b) ==
    /\ C25_Parses(a) /\ C25_Parses(b)
    /\ UrlTable[C25_Trim(a)].host = UrlTable[C25_Trim(b)].host
    /\ UrlTable[C25_Trim(a)].path = UrlTable[C25_Trim(b)].path
    /\ C25_Kept(a) = C25_Kept(b)

\* the text of the result holds a fragment or a tracking parameter
C25_HasFragmentOrTracking(string) ==
    \/ "#" \in Range(Spell(string))
    \/ \E key \in C25_Tracking : includes(Spell(string), Spell(key))

\* C25: the result of canonicalUrl has no fragment and no tracking parameter, keeps
\* every other query parameter, is the same for two URLs that differ only in
\* fragment and tracking parameters, is the trimmed input when the input does not
\* parse as a URL, and canonicalUrl is idempotent.
C25_CanonicalUrl ==
    /\ pc \in {"canonical", "recanonical"} =>
          IF C25_Parses(urlArg)
          THEN /\ urlResult \in DOMAIN UrlTable
               /\ ~C25_HasFragmentOrTracking(urlResult)
               /\ UrlTable[urlResult].hash = ""
               /\ UrlTable[urlResult].query = C25_Kept(urlArg)
               /\ UrlTable[urlResult].host = UrlTable[C25_Trim(urlArg)].host
               /\ UrlTable[urlResult].path = UrlTable[C25_Trim(urlArg)].path
               /\ \A other \in UrlInputs :
                     C25_SameButTracking(urlArg, other) => canonicalUrl(other) = urlResult
          ELSE urlResult = C25_Trim(urlArg)
    /\ pc = "recanonical" => again = urlResult

\* C25 witness: a padded URL with a fragment, two tracking parameters and one other
\* parameter was canonicalized twice
C25_Witness ==
    /\ pc = "recanonical"
    /\ urlArg = " https://a.com/1?id=7&utm_medium=mail&gclid=x#frag "
    /\ urlResult = "https://a.com/1?id=7"
    /\ again = urlResult

-----------------------------------------------------------------------------
(* The archive tab of App (specification SpecArchive)                      *)

\* null in a string | null state of App
NullDate == "null"
\* null in a Today | null state of App
NullToday == [null |-> TRUE]

\* the dates of the briefs
ArchiveDates == {"1970-01-01", "1970-01-02", "1970-01-03"}
\* todayData.date
TodayDate == "1970-01-03"

\* a today.json of the given date with one cluster
ArchivedToday(date, generated_at) ==
    [date |-> date,
     generated_at |-> generated_at,
     clusters |-> <<[cluster_id |-> "cluster-" \o date,
                     title |-> "Budget",
                     best_article |-> [url |-> "https://a.com/1"],
                     articles |-> <<>>]>>]

\* todayData, the payload of /data/today.json
TodayData == ArchivedToday(TodayDate, "1970-01-03T12:00:00.000Z")

\* validateTodayJson of utils/validation.ts
validateTodayJson(p) ==
    /\ p.date # "" /\ p.generated_at # ""
    /\ \A i \in 1..Len(p.clusters) :
          /\ p.clusters[i].cluster_id # ""
          /\ p.clusters[i].title # ""
          /\ p.clusters[i].best_article.url # ""

\* the responses of /data/${date}/today.json: what the server holds for every date
ServedArchives ==
    {[date \in ArchiveDates |-> [ok |-> TRUE, json |-> ArchivedToday(date, date)]],
     [date \in ArchiveDates |->
         IF date = "1970-01-01" THEN [ok |-> FALSE]
         ELSE IF date = "1970-01-02" THEN [ok |-> TRUE, json |-> ArchivedToday(date, "")]
         ELSE [ok |-> TRUE, json |-> ArchivedToday(date, date)]]}

\* the index.json that writeArchive writes: unique dates, the newest first
ArchiveIndexes == {SortDatesDescending(dates) : dates \in SUBSET ArchiveDates}

\* the most archive fetches of one session
MaxFetches == 3

\* the fetch of the effect of archiveDate, none when the date is null
ArchiveFetches(date, issued) ==
    IF date = NullDate THEN {} ELSE {[id |-> issued + 1, date |-> date]}

InitArchive ==
    /\ now \in AsOfTimes
    /\ pc = "archive"
    /\ BuildIdle
    /\ OutputIdle
    /\ settings = Idle
    /\ ChooseIdle
    /\ RankIdle
    /\ again = Idle
    /\ urlArg = Idle
    /\ urlResult = Idle
    /\ detail = Idle
    /\ \E index \in ArchiveIndexes, served \in ServedArchives,
          date \in ArchiveDates \cup {NullDate} :
          archive = [activeTab |-> "archive",
                     archiveIndex |-> index,
                     archiveDate |-> date,
                     archiveData |-> NullToday,
                     served |-> served,
                     inFlight |-> ArchiveFetches(date, 0),
                     issued |-> Cardinality(ArchiveFetches(date, 0))]

\* archiveIndex.indexOf(archiveDate), counted from 0; -1 when absent or null
selectedArchiveIndex(a) ==
    IF a.archiveDate # NullDate /\ a.archiveDate \in Range(a.archiveIndex)
    THEN (CHOOSE i \in 1..Len(a.archiveIndex) : a.archiveIndex[i] = a.archiveDate) - 1
    ELSE -1

previousArchiveDate(a) ==
    IF selectedArchiveIndex(a) > 0
    THEN a.archiveIndex[selectedArchiveIndex(a)]
    ELSE NullDate

nextArchiveDate(a) ==
    IF selectedArchiveIndex(a) >= 0 /\ selectedArchiveIndex(a) < Len(a.archiveIndex) - 1
    THEN a.archiveIndex[selectedArchiveIndex(a) + 2]
    ELSE NullDate

\* the Today whose clusters the tab derives and shows
baseRenderData(a) ==
    IF a.activeTab = "archive" /\ a.archiveData # NullToday THEN a.archiveData ELSE TodayData

\* the Date line of daily-meta
shownDate(a) ==
    IF a.activeTab = "archive" /\ a.archiveDate # NullDate THEN a.archiveDate ELSE TodayData.date

\* setArchiveDate(date) and the effect of archiveDate, which runs when the date changed
setArchiveDate(a, date) ==
    IF date = a.archiveDate THEN a
    ELSE [a EXCEPT !.archiveDate = date,
                   !.inFlight = @ \cup ArchiveFetches(date, a.issued),
                   !.issued = @ + Cardinality(ArchiveFetches(date, a.issued))]

ArchiveStep(after) ==
    /\ pc = "archive"
    /\ after.issued <= MaxFetches
    /\ archive' = after
    /\ UNCHANGED <<now, pc, feedIdx, xml, allItems, failures, deduped, cursor, clusters,
                   cluster, settings, chosen, data, derived, payload, files, again,
                   urlArg, urlResult, detail>>

\* setActiveTab
SetActiveTab ==
    \E tab \in {"brief", "archive"} :
        /\ tab # archive.activeTab
        /\ ArchiveStep([archive EXCEPT !.activeTab = tab])

\* the button Previous day
PreviousDay ==
    /\ archive.activeTab = "archive"
    /\ previousArchiveDate(archive) # NullDate
    /\ ArchiveStep(setArchiveDate(archive, previousArchiveDate(archive)))

\* the button Jump to today
JumpToToday ==
    /\ archive.activeTab = "archive"
    /\ archive.archiveDate # TodayData.date
    /\ ArchiveStep(setArchiveDate(archive, TodayData.date))

\* the button Next day
NextDay ==
    /\ archive.activeTab = "archive"
    /\ nextArchiveDate(archive) # NullDate
    /\ ArchiveStep(setArchiveDate(archive, nextArchiveDate(archive)))

\* the select of the archive dates, its empty option included
SelectArchiveDate ==
    /\ archive.activeTab = "archive"
    /\ \E date \in Range(archive.archiveIndex) \cup {NullDate} :
          /\ date # archive.archiveDate
          /\ ArchiveStep(setArchiveDate(archive, date))

\* what the promise chain of a fetch passes to setArchiveData
ArchiveResponse(served, date) ==
    IF served[date].ok /\ validateTodayJson(served[date].json)
    THEN served[date].json
    ELSE NullToday

\* a fetch of the effect settles: setArchiveData
ArchiveFetchSettles ==
    \E fetch \in archive.inFlight :
        ArchiveStep([archive EXCEPT
                        !.archiveData = ArchiveResponse(archive.served, fetch.date),
                        !.inFlight = @ \ {fetch}])

NextArchive ==
    \/ SetActiveTab
    \/ PreviousDay
    \/ JumpToToday
    \/ NextDay
    \/ SelectArchiveDate
    \/ ArchiveFetchSettles

SpecArchive == InitArchive /\ [][NextArchive]_vars

-----------------------------------------------------------------------------
(* Claims on the archive tab (specification SpecArchive)                   *)

\* the archived dates earlier and later than the selected one
C27_Earlier(a) == {d \in Range(a.archiveIndex) : StringLess(d, a.archiveDate)}
C27_Later(a) == {d \in Range(a.archiveIndex) : StringLess(a.archiveDate, d)}
C27_Greatest(dates) == CHOOSE d \in dates : \A e \in dates \ {d} : StringLess(e, d)
C27_Least(dates) == CHOOSE d \in dates : \A e \in dates \ {d} : StringLess(d, e)

\* C27: with a date of the archive index selected, Previous day moves to the closest
\* archived date earlier than it and Next day to the closest archived date later than
\* it; each button is disabled exactly when there is no such date.
C27_ArchiveNavigation ==
    [][archive.archiveDate \in Range(archive.archiveIndex) =>
          /\ PreviousDay => /\ C27_Earlier(archive) # {}
                            /\ archive'.archiveDate = C27_Greatest(C27_Earlier(archive))
          /\ NextDay => /\ C27_Later(archive) # {}
                        /\ archive'.archiveDate = C27_Least(C27_Later(archive))
          /\ previousArchiveDate(archive) = NullDate <=> C27_Earlier(archive) = {}
          /\ nextArchiveDate(archive) = NullDate <=> C27_Later(archive) = {}]_vars

\* Previous day and Next day move to the neighbours of the selected date in the
\* index: the closest later and the closest earlier archived date
C27_ButtonsFollowTheIndex ==
    [][/\ PreviousDay => /\ C27_Later(archive) # {}
                         /\ archive'.archiveDate = C27_Least(C27_Later(archive))
       /\ NextDay => /\ C27_Earlier(archive) # {}
                     /\ archive'.archiveDate = C27_Greatest(C27_Earlier(archive))]_vars

\* C28: once no fetch is in flight, archiveData is the payload of the selected
\* archiveDate, or null when that payload is missing or invalid, and the archive tab
\* shows under the selected date the clusters of that date only.
C28_ArchiveDataOfSelectedDate ==
    (pc = "archive" /\ archive.inFlight = {} /\ archive.archiveDate # NullDate) =>
        /\ archive.archiveData = ArchiveResponse(archive.served, archive.archiveDate)
        /\ archive.activeTab = "archive" => baseRenderData(archive).date = shownDate(archive)

\* the first half of C28 alone: the data held are those of the selected date
C28_NoStaleData ==
    (pc = "archive" /\ archive.inFlight = {} /\ archive.archiveDate # NullDate) =>
        archive.archiveData = ArchiveResponse(archive.served, archive.archiveDate)

\* the second half of C28 alone: the clusters shown are those of the date shown
C28_ShownUnderOwnDate ==
    (pc = "archive" /\ archive.inFlight = {} /\ archive.archiveDate # NullDate
        /\ archive.activeTab = "archive") =>
        baseRenderData(archive).date = shownDate(archive)

-----------------------------------------------------------------------------
(* clusterItems on any deduplicated item list (specification SpecCluster)  *)

\* the records of the model, two more whose titles yield no keyword and a later
\* report titled as an earlier one
ClusterRecords ==
    RawRecords \cup
    {[link |-> "https://c.org/4", title |-> "Tax", description |-> "", pubDate |-> ""],
     [link |-> "https://c.org/3", title |-> "War - AP", description |-> "", pubDate |-> ""],
     [link |-> "https://c.org/4", title |-> "Budget bill", description |-> "",
      pubDate |-> "Fri, 02 Jan 1970 16:00:00 GMT"]}

\* the items parseRssItem yields for them
ClusterPool ==
    {parseRssItem(record, Feeds[1]).item :
        record \in {r \in ClusterRecords : parseRssItem(r, Feeds[1]).kind = "item"}}

\* what dedupe can return: items with distinct urls
DedupedLists ==
    {list \in SeqsUpTo(ClusterPool, MaxItems) :
        \A i, j \in 1..Len(list) : i # j => list[i].url # list[j].url}

InitCluster ==
    /\ now \in AsOfTimes
    /\ pc = "cluster"
    /\ feedIdx = 0 /\ xml = <<>> /\ allItems = <<>> /\ failures = <<>>
    /\ deduped \in DedupedLists
    /\ cursor = 1
    /\ clusters = <<>>
    /\ OutputIdle
    /\ settings = Idle
    /\ ChooseIdle
    /\ RankIdle
    /\ again = Idle
    /\ AppIdle

NextCluster ==
    \/ ClusterStep
    \/ ClusterReturn

SpecCluster == InitCluster /\ [][NextCluster]_vars

-----------------------------------------------------------------------------
(* Claims on clusterItems (specification SpecCluster)                      *)

\* two members of one cluster that both have no keyword
C18_EmptyPairs ==
    {<<c.articles[i], c.articles[j]>> : <<c, i, j>> \in
        {<<c, i, j>> \in Range(clusters) \X (1..MaxItems + 1) \X (1..MaxItems + 1) :
            /\ i < j /\ j <= Len(c.articles)
            /\ c.articles[i].keywords = <<>>
            /\ c.articles[j].keywords = <<>>}}

\* C18 as stated: overlapScore of two empty keyword sets is 0, and two items whose
\* keyword sets are both empty are never put in the same cluster.
C18_EmptyNeverTogether ==
    /\ overlapScore(<<>>, <<>>).num = 0
    /\ C18_EmptyPairs = {}

\* C18, amended: overlapScore of two empty keyword sets is 0, and two items whose
\* keyword sets are both empty are in the same cluster only if their normalized
\* titles are identical.
C18_EmptyTogetherByTitleOnly ==
    /\ overlapScore(<<>>, <<>>).num = 0
    /\ overlapScore(<<>>, <<>>).den # 0
    /\ \A pair \in C18_EmptyPairs : pair[1].normalized_title = pair[2].normalized_title

\* C18 witness: two items without keywords share a cluster, a third one with another
\* title was kept out of it
C18_Witness ==
    /\ pc = "clustered"
    /\ C18_EmptyPairs # {}
    /\ \E c, d \in Range(clusters) :
          /\ c.keywords = <<>> /\ d.keywords = <<>>
          /\ c.normalized_title # d.normalized_title
          /\ Abs(c.updated_at - d.updated_at) <= 24

\* the similarity test of clusterItems: Jaccard >= 0.45
C19_Admits(clusterKeywords, itemKeywords) ==
    LET similarity == overlapScore(clusterKeywords, itemKeywords)
    IN 100 * similarity.num >= 45 * similarity.den

C20_MemberKeywords(c) ==
    UNION {Range(c.articles[i].keywords) : i \in 1..Len(c.articles)}

\* the places <<cluster, position>> at which an item is a member
C20_PlacesOf(item) ==
    {<<k, i>> \in (1..Len(clusters)) \X (1..MaxItems + 1) :
        i <= Len(clusters[k].articles) /\ clusters[k].articles[i] = item}

\* C20: across every step of clusterItems an existing cluster's articles list only
\* gains items at its end (nothing is removed, reordered or moved to another cluster),
\* its keyword set only grows and is the union of its members' keywords, and its title
\* and normalized_title stay those of its seed item.
C20_ClustersOnlyGrow ==
    /\ [](\A k \in 1..Len(clusters) :
             /\ clusters[k].articles # <<>>
             /\ Range(clusters[k].keywords) = C20_MemberKeywords(clusters[k])
             /\ clusters[k].title = clusters[k].articles[1].title
             /\ clusters[k].normalized_title = clusters[k].articles[1].normalized_title)
    /\ [](\A n \in 1..Len(deduped) :
             Cardinality(C20_PlacesOf(deduped[n])) = (IF n < cursor THEN 1 ELSE 0))
    /\ [][/\ Len(clusters') >= Len(clusters)
          /\ \A k \in 1..Len(clusters) :
                /\ Len(clusters'[k].articles) >= Len(clusters[k].articles)
                /\ SubSeq(clusters'[k].articles, 1, Len(clusters[k].articles))
                       = clusters[k].articles
                /\ Range(clusters[k].keywords) \subseteq Range(clusters'[k].keywords)
                /\ clusters'[k].title = clusters[k].title
                /\ clusters'[k].normalized_title = clusters[k].normalized_title]_vars

\* C20 witness: a cluster that took a second member with a title and a keyword its
\* seed does not have, next to another cluster
C20_Witness ==
    /\ pc = "clustered"
    /\ Len(clusters) >= 2
    /\ \E c \in Range(clusters) :
          /\ Len(c.articles) >= 2
          /\ c.articles[2].normalized_title # c.normalized_title
          /\ Range(c.keywords) # Range(c.articles[1].keywords)

-----------------------------------------------------------------------------
(* validateToday and the writes of main() on any payload                   *)
(* (specification SpecValidate)                                            *)

\* the items parseRssItem yields for the records of the model
ParsedItems ==
    {parseRssItem(record, Feeds[1]).item :
        record \in {r \in RawRecords : parseRssItem(r, Feeds[1]).kind = "item"}}

\* a record without one of its fields: the field is undefined
Without(record, field) == [f \in DOMAIN record \ {field} |-> record[f]]

\* a payload whose first cluster is replaced
WithCluster(p, c) == [p EXCEPT !.clusters = <<c>> \o Tail(@)]

\* what validateToday can be handed: payloads of toTodayJson, and the same payloads
\* with a field missing or malformed
Payloads ==
    LET built == {toTodayJson(items, "4fzzzxj") : items \in SeqsUpTo(ParsedItems, 2)}
        broken(p) ==
            {Without(p, "date"), [p EXCEPT !.date = ""], [p EXCEPT !.date = "03/01/1970"],
             Without(p, "generated_at"), [p EXCEPT !.generated_at = "today"],
             Without(p, "clusters")}
            \cup (IF p.clusters = <<>> THEN {}
                  ELSE LET c == p.clusters[1]
                       IN {WithCluster(p, Without(c, "cluster_id")),
                           WithCluster(p, [c EXCEPT !.cluster_id = ""]),
                           WithCluster(p, Without(c, "best_article")),
                           WithCluster(p, [c EXCEPT !.best_article.url = ""]),
                           WithCluster(p, Without(c, "articles"))})
    IN built \cup UNION {broken(p) : p \in built}

InitValidate ==
    /\ now \in AsOfTimes
    /\ pc = "validate"
    /\ BuildIdle
    /\ payload \in Payloads
    /\ files \in PublishedBefore
    /\ settings = Idle
    /\ ChooseIdle
    /\ RankIdle
    /\ again = Idle
    /\ AppIdle

\* main() from validateToday(payload) on
NextValidate ==
    \/ Validate
    \/ ValidateThrows
    \/ WriteToday
    \/ WriteSources
    \/ WriteArchive
    \/ WriteIndex

SpecValidate == InitValidate /\ [][NextValidate]_vars

-----------------------------------------------------------------------------
(* Claims on validateToday (specification SpecValidate)                    *)

\* the payload is one validateToday is to refuse: bad date, bad generated_at,
\* clusters not an array, or a cluster without cluster_id, best_article.url or articles
C14_Invalid(p) ==
    \/ "date" \notin DOMAIN p
    \/ LET d == Spell(p.date)
       IN ~(Len(d) = 10 /\ d[5] = "-" /\ d[8] = "-"
            /\ \A i \in (1..10) \ {5, 8} : d[i] \in DigitChars)
    \/ "generated_at" \notin DOMAIN p
    \/ p.generated_at \notin {IsoStrings[t] : t \in DOMAIN IsoStrings}
    \/ "clusters" \notin DOMAIN p
    \/ \E i \in 1..Len(p.clusters) :
          LET c == p.clusters[i]
          IN \/ "cluster_id" \notin DOMAIN c
             \/ c.cluster_id = ""
             \/ "best_article" \notin DOMAIN c
             \/ c.best_article.url = ""
             \/ "articles" \notin DOMAIN c

\* a file of public/data was written by this run
C14_Written ==
    \/ files.today = "current"
    \/ files.sources = "current"
    \/ \E d \in DOMAIN files.archive : files.archive[d] = "current"

\* C14: validateToday is applied before any file write, and a payload that fails it
\* ends the run in an error with no file written.
C14_ValidatedBeforeWrite ==
    /\ [](pc = "validate" => ~C14_Written)
    /\ [](C14_Written => ~C14_Invalid(payload))
    /\ [](pc = "failed" => (C14_Invalid(payload) /\ ~C14_Written))
    /\ [][files' # files => (pc # "validate" /\ ~C14_Invalid(payload))]_vars
    /\ [][(pc = "validate" /\ C14_Invalid(payload)) => (pc' = "failed" /\ files' = files)]_vars

\* C14 witness: a payload whose first cluster has no cluster_id was refused, and the
\* files published before are untouched
C14_Witness ==
    /\ pc = "failed"
    /\ "clusters" \in DOMAIN payload
    /\ payload.clusters # <<>>
    /\ "cluster_id" \notin DOMAIN payload.clusters[1]
    /\ files \in PublishedBefore

-----------------------------------------------------------------------------
(* toTodayJson twice on the same items (specification SpecTwice)           *)

InitTwice ==
    /\ now \in AsOfTimes
    /\ pc = "first"
    /\ feedIdx = 0 /\ xml = <<>> /\ failures = <<>>
    /\ deduped = <<>> /\ cursor = 0 /\ clusters = <<>>
    /\ allItems \in SeqsUpTo(ParsedItems, MaxItems) \ {<<>>}
    /\ payload = Idle
    /\ files = Idle
    /\ again = Idle
    /\ AppIdle
    /\ settings = Idle
    /\ ChooseIdle
    /\ RankIdle

\* const payload = toTodayJson(allItems), in one build run
TodayFirst ==
    /\ pc = "first"
    /\ pc' = "second"
    /\ \E stream \in RandomStreams : payload' = toTodayJson(allItems, stream)
    /\ UNCHANGED <<now, feedIdx, xml, allItems, failures, deduped, cursor, clusters,
                   cluster, settings, chosen, data, derived, files, again,
                   urlArg, urlResult, archive, detail>>

\* toTodayJson(allItems) in another build run over the same items at the same time
TodaySecond ==
    /\ pc = "second"
    /\ pc' = "twice"
    /\ \E stream \in RandomStreams : again' = toTodayJson(allItems, stream)
    /\ UNCHANGED <<now, feedIdx, xml, allItems, failures, deduped, cursor, clusters,
                   cluster, settings, chosen, data, derived, payload, files,
                   urlArg, urlResult, archive, detail>>

NextTwice ==
    \/ TodayFirst
    \/ TodaySecond

SpecTwice == InitTwice /\ [][NextTwice]_vars

-----------------------------------------------------------------------------
(* Claims on two runs of toTodayJson (specification SpecTwice)             *)

\* C17: two runs of toTodayJson over identical items at the same as-of time give
\* identical payloads, each cluster's cluster_id, rank_score, order and best_article
\* included.
C17_SamePayloadTwice ==
    pc = "twice" => again = payload

\* the place of a reliability bucket in the order High > Med > Low
C26_BucketRank(bucket) == CASE bucket = "High" -> 3 [] bucket = "Med" -> 2 [] OTHER -> 1

\* C26: for every cluster of the payload of toTodayJson, best_article is a member
\* article whose reliability bucket is the highest present in the cluster under the
\* order High > Med > Low.
C26_BestHasHighestBucket ==
    pc \in {"second", "twice"} =>
        \A k \in 1..Len(payload.clusters) :
            LET c == payload.clusters[k]
            IN /\ \E a \in Range(c.articles) :
                     /\ a.url = c.best_article.url
                     /\ a.source_domain = c.best_article.source_domain
                     /\ a.labels = c.best_article.labels
               /\ \A a \in Range(c.articles) :
                     C26_BucketRank(c.best_article.labels.reliability)
                         >= C26_BucketRank(a.labels.reliability)

\* the best_article of every cluster is one of its member articles
C26_BestIsMember ==
    pc \in {"second", "twice"} =>
        \A k \in 1..Len(payload.clusters) :
            \E a \in Range(payload.clusters[k].articles) :
                /\ a.url = payload.clusters[k].best_article.url
                /\ a.labels = payload.clusters[k].best_article.labels

\* the two payloads agree in everything but the cluster_id of their clusters
C17_SameButClusterIds ==
    pc = "twice" =>
        /\ again.date = payload.date
        /\ again.generated_at = payload.generated_at
        /\ Len(again.clusters) = Len(payload.clusters)
        /\ \A i \in 1..Len(payload.clusters) :
              [again.clusters[i] EXCEPT !.cluster_id = ""]
                  = [payload.clusters[i] EXCEPT !.cluster_id = ""]

-----------------------------------------------------------------------------
(* chooseBestArticle on the clusters and settings of the app               *)
(* (specification SpecChoose)                                              *)

\* the most articles of a cluster
MaxArticles == 5

\* articles of today.json
Articles == {
    [url |-> "https://a.com/1", title |-> "Budget bill", source_domain |-> "a.com",
     timestamp |-> 40, snippet |-> "Feed A coverage",
     labels |-> [reliability |-> "High", paywall |-> "Yes", region |-> "US",
                 bias_label |-> "Right"]],
    [url |-> "https://www.b.com/2", title |-> "Budget vote", source_domain |-> "b.com",
     timestamp |-> 40, snippet |-> "Summary",
     labels |-> [reliability |-> "Low", paywall |-> "No", region |-> "Europe",
                 bias_label |-> "Left"]],
    [url |-> "https://c.org/3", title |-> "SHOCKING budget!!", source_domain |-> "c.org",
     timestamp |-> 20, snippet |-> "Feed B coverage",
     labels |-> [reliability |-> "Med", paywall |-> "No"]],
    [url |-> "https://d.net/4", title |-> "BUDGET BILL PASSES NOW", source_domain |-> "d.net",
     timestamp |-> 0, snippet |-> "Feed B coverage",
     labels |-> [reliability |-> "High", paywall |-> "No", region |-> "US",
                 bias_label |-> "Center"]],
    [url |-> "https://e.io/5", title |-> "Tax", source_domain |-> "e.io",
     timestamp |-> 40, snippet |-> "Feed B coverage",
     labels |-> [reliability |-> "Med", paywall |-> "Yes", region |-> "Asia",
                 bias_label |-> "Center"]] }

\* article lists without a repeated url, as dedupe and clusterItems leave them
ArticleLists(n) ==
    {list \in SeqsUpTo(Articles, n) :
        /\ Len(list) >= 1
        /\ \A i, j \in 1..Len(list) : i # j => list[i].url # list[j].url}

\* a cluster of today.json with the given articles
TodayCluster(id, articles) ==
    [cluster_id |-> id,
     rank_score |-> 0,
     priority |-> "low",
     title |-> articles[1].title,
     topic_tags |-> Take(keywordsFromTitle(articles[1].title), 3),
     updated_at |-> MaxTimestamp(articles),
     coverage_breadth |-> "Narrow",
     best_article |-> [url |-> articles[1].url,
                       source_domain |-> articles[1].source_domain,
                       image_url |-> "",
                       labels |-> articles[1].labels,
                       trace_summary |-> <<>>],
     articles |-> articles]

NoWeights == [domain \in {} |-> "normal"]

DefaultRegionWeights == [region \in {"US", "Europe", "Asia", "Global"} |-> 10]

\* the preset international-first, in tenths
InternationalFirst == ("US" :> 8) @@ ("Europe" :> 12) @@ ("Asia" :> 12) @@ ("Global" :> 13)

\* DEFAULT_SETTINGS: storiesPerDay, topCount, scanCount, keywordMutes, topicBoosts
DefaultRankPart ==
    [storiesPerDay |-> 20, topCount |-> 5, scanCount |-> 10,
     keywordMutes |-> <<>>, topicBoosts |-> <<>>]

\* the settings the controls of the Settings tab can produce around the rank part r,
\* region weights in tenths
SettingsWith(r) ==
    {[storiesPerDay |-> r.storiesPerDay, topCount |-> r.topCount, scanCount |-> r.scanCount,
      keywordMutes |-> r.keywordMutes, topicBoosts |-> r.topicBoosts,
      minReliability |-> minReliability, paywallMode |-> paywallMode,
      sourceWeights |-> sourceWeights, regionWeights |-> regionWeights] :
        minReliability \in {"Low", "Med", "High"},
        paywallMode \in {"allow", "downrank", "hide"},
        sourceWeights \in {NoWeights,
                           ("a.com" :> "hide"),
                           ("b.com" :> "boost") @@ ("c.org" :> "hide") @@ ("d.net" :> "normal")},
        regionWeights \in {DefaultRegionWeights, InternationalFirst,
                           ("US" :> 0) @@ ("Europe" :> 20) @@ ("Asia" :> 10) @@ ("Global" :> 10)}}

SettingsPool == SettingsWith(DefaultRankPart)

InitChoose ==
    /\ now \in AsOfTimes
    /\ pc = "choose"
    /\ BuildIdle
    /\ OutputIdle
    /\ RankIdle
    /\ again = Idle
    /\ AppIdle
    /\ cluster \in {TodayCluster("cluster-1", list) : list \in ArticleLists(MaxArticles)}
    /\ settings \in SettingsPool
    /\ chosen = Idle

\* const { best, trace, alternatives } = chooseBestArticle(cluster, settings)
ChooseBest ==
    /\ pc = "choose"
    /\ pc' = "chosen"
    /\ chosen' = chooseBestArticle(cluster, settings)
    /\ UNCHANGED <<now, feedIdx, xml, allItems, failures, deduped, cursor, clusters,
                   cluster, settings, data, derived, payload, files, again,
                   urlArg, urlResult, archive, detail>>

NextChoose == ChooseBest

SpecChoose == InitChoose /\ [][NextChoose]_vars

-----------------------------------------------------------------------------
(* Claims on chooseBestArticle (specification SpecChoose)                  *)

Chosen == pc = "chosen"

\* the blocking rule stated on its own: below the reliability floor, or a source
\* weight of hide, or paywalled under paywallMode hide
C_Rank(reliability) == CASE reliability = "High" -> 3 [] reliability = "Med" -> 2 [] OTHER -> 1
C_Blocked(article, s) ==
    \/ C_Rank(article.labels.reliability) < C_Rank(s.minReliability)
    \/ (article.source_domain \in DOMAIN s.sourceWeights
        /\ s.sourceWeights[article.source_domain] = "hide")
    \/ (s.paywallMode = "hide" /\ article.labels.paywall = "Yes")
C_AllBlocked(c, s) == \A a \in Range(c.articles) : C_Blocked(a, s)

\* the characters of a trace
RECURSIVE TraceChars(_)
TraceChars(trace) ==
    IF trace = <<>> THEN <<>> ELSE Spell(Head(trace)) \o TraceChars(Tail(trace))
C_SaysFallback(trace) == includes(toLowerCase(TraceChars(trace)), Spell("fallback"))

\* C3: a best article of the cluster is returned, and the trace contains the word
\* "fallback" exactly when every candidate is blocked.
C3_FallbackTraceIffAllBlocked ==
    Chosen =>
        /\ chosen.best \in Range(cluster.articles)
        /\ C_SaysFallback(chosen.trace) <=> C_AllBlocked(cluster, settings)

\* C3 witness: a cluster of several candidates, all blocked, one of them only by
\* its source weight, got a fallback pick
C3_Witness ==
    /\ Chosen
    /\ Len(cluster.articles) >= 2
    /\ C_AllBlocked(cluster, settings)
    /\ C_SaysFallback(chosen.trace)
    /\ \E a \in Range(cluster.articles) :
          ~C_Blocked(a, [settings EXCEPT !.sourceWeights = NoWeights])

\* C4: when every candidate is blocked, the returned article has the highest
\* reliability bucket among the articles of the cluster.
C4_FallbackIsHighestReliability ==
    (Chosen /\ C_AllBlocked(cluster, settings)) =>
        \A a \in Range(cluster.articles) :
            C_Rank(chosen.best.labels.reliability) >= C_Rank(a.labels.reliability)

\* C5: when some candidate is not blocked, the returned article is not blocked and
\* no other candidate that is not blocked has a strictly higher score.
C5_BestIsTopUnblocked ==
    (Chosen /\ ~C_AllBlocked(cluster, settings)) =>
        /\ ~C_Blocked(chosen.best, settings)
        /\ \A a \in Range(cluster.articles) :
              ~C_Blocked(a, settings)
                  => ScoreEntry(a, settings).score <= ScoreEntry(chosen.best, settings).score

\* C5 witness: a blocked candidate had the highest score and was passed over
C5_Witness ==
    /\ Chosen
    /\ ~C_Blocked(chosen.best, settings)
    /\ \E a \in Range(cluster.articles) :
          /\ C_Blocked(a, settings)
          /\ ScoreEntry(a, settings).score > ScoreEntry(chosen.best, settings).score

\* the cluster has exactly one High-reliability article, and it is paywalled
C6_OnlyHighIsPaywalled(c) ==
    /\ Cardinality({a \in Range(c.articles) : a.labels.reliability = "High"}) = 1
    /\ \A a \in Range(c.articles) : a.labels.reliability = "High" => a.labels.paywall = "Yes"

C6_BestUnder(mode) == chooseBestArticle(cluster, [settings EXCEPT !.paywallMode = mode]).best

\* C6 (as claimed): for a cluster whose only High-reliability article is paywalled,
\* paywallMode hide returns a different best article than paywallMode allow.
C6_HideChangesBest ==
    (Chosen /\ C6_OnlyHighIsPaywalled(cluster)) =>
        C6_BestUnder("hide").url # C6_BestUnder("allow").url

\* C6 (amended): for a cluster whose only High-reliability article is paywalled, if
\* paywallMode allow returns that article and some article of the cluster is not
\* blocked under paywallMode hide, then hide returns a different best article.
C6_HideChangesBestWhenAnotherPasses ==
    (/\ Chosen
     /\ C6_OnlyHighIsPaywalled(cluster)
     /\ C6_BestUnder("allow").labels.reliability = "High"
     /\ ~C_AllBlocked(cluster, [settings EXCEPT !.paywallMode = "hide"]))
    => C6_BestUnder("hide").url # C6_BestUnder("allow").url

\* C6 witness: under hide the pick moved away from the paywalled High article
C6_Witness ==
    /\ Chosen
    /\ settings.paywallMode = "hide"
    /\ C6_OnlyHighIsPaywalled(cluster)
    /\ C6_BestUnder("allow").labels.reliability = "High"
    /\ ~C_AllBlocked(cluster, settings)
    /\ chosen.best.url # C6_BestUnder("allow").url

\* the text of the trace contains the two strings, one right after the other
C21_Says(trace, label, value) ==
    includes(TraceChars(trace), Spell(label) \o Spell(value))

\* C21: when the pick is not a fallback, the trace names the chosen article's source
\* domain, its reliability bucket, its paywall label and the paywall mode, and does
\* not contain "fallback".
C21_TraceNamesThePick ==
    (Chosen /\ ~C_AllBlocked(cluster, settings)) =>
        /\ C21_Says(chosen.trace, "Best Source: ", chosen.best.source_domain)
        /\ C21_Says(chosen.trace, " (reliability ", chosen.best.labels.reliability)
        /\ C21_Says(chosen.trace, ", paywall ", chosen.best.labels.paywall)
        /\ C21_Says(chosen.trace, ", paywall mode ", settings.paywallMode)
        /\ ~C_SaysFallback(chosen.trace)

\* C21 witness: a cluster of a High and a newer Low article, neither paywalled, under
\* the floor Med: the High one is picked and the trace mentions "High"
C21_Witness ==
    /\ Chosen
    /\ Len(cluster.articles) = 2
    /\ settings.minReliability = "Med"
    /\ \A a \in Range(cluster.articles) : a.labels.paywall = "No"
    /\ \E a, b \in Range(cluster.articles) :
          /\ a.labels.reliability = "High"
          /\ b.labels.reliability = "Low"
          /\ b.timestamp > a.timestamp
          /\ chosen.best = a
    /\ includes(TraceChars(chosen.trace), Spell("High"))
    /\ ~C_SaysFallback(chosen.trace)

\* the score of an article under the settings of the state
C22_Score(article) == ScoreEntry(article, settings).score

\* the candidates other than the chosen article
C22_Rest == {a \in Range(cluster.articles) : a.url # chosen.best.url}

\* the reason says "blocked"
C22_SaysBlocked(reason) == includes(toLowerCase(Spell(reason)), Spell("blocked"))

\* C22: alternatives has at most 3 entries, none with the chosen article's url; they
\* are the highest-scored remaining candidates in descending score order; an entry's
\* reason says "blocked" exactly when the candidate is blocked by the settings and is
\* the outscored reason otherwise; an outscored alternative scores no higher than the
\* chosen article.
C22_Alternatives ==
    Chosen =>
        LET alts == chosen.alternatives
            listed == {alts[i].article : i \in 1..Len(alts)}
        IN /\ Len(alts) <= 3
           /\ Len(alts) = Min(3, Cardinality(C22_Rest))
           /\ listed \subseteq C22_Rest
           /\ Cardinality(listed) = Len(alts)
           /\ \A i, j \in 1..Len(alts) :
                 i < j => C22_Score(alts[i].article) >= C22_Score(alts[j].article)
           /\ \A a \in C22_Rest \ listed :
                 \A b \in listed : C22_Score(a) <= C22_Score(b)
           /\ \A i \in 1..Len(alts) :
                 /\ C22_SaysBlocked(alts[i].reason) <=> C_Blocked(alts[i].article, settings)
                 /\ ~C_Blocked(alts[i].article, settings) =>
                       /\ alts[i].reason = OutscoredReason
                       /\ C22_Score(alts[i].article) <= C22_Score(chosen.best)

\* C22 witness: of four remaining candidates three are listed, a blocked one ahead
\* of an outscored one, and the lowest-scored candidate is left out
C22_Witness ==
    /\ Chosen
    /\ Cardinality(C22_Rest) = 4
    /\ Len(chosen.alternatives) = 3
    /\ \E i, j \in 1..3 :
          /\ i < j
          /\ chosen.alternatives[i].reason = BlockedReason
          /\ chosen.alternatives[j].reason = OutscoredReason

-----------------------------------------------------------------------------
(* deriveClusters (src/utils/ranking.ts)                                   *)

RECURSIVE SumOver(_, _)
\* Array.prototype.reduce((sum, region) => sum + weight of region, 0)
SumOver(regions, weights) ==
    IF regions = {} THEN 0
    ELSE LET region == CHOOSE r \in regions : TRUE
         IN Lookup(weights, region, 7) + SumOver(regions \ {region}, weights)

\* Number((a / b).toFixed(3)) in thousandths: a / b in thousandths rounded to the
\* nearest integer, a half away from zero
ToFixed3(a, b) ==
    IF a >= 0 THEN (2000 * a + b) \div (2 * b)
    ELSE -((2000 * (-a) + b) \div (2 * b))

\* the callback of the first map of deriveClusters, the labels of best_article left
\* as they are in today.json
DeriveOne_KeepsLabels(c, s) ==
    LET picked == chooseBestArticle(c, s)
    IN [cluster_id |-> c.cluster_id,
        rank_score |-> c.rank_score,
        priority |-> c.priority,
        title |-> c.title,
        topic_tags |-> c.topic_tags,
        updated_at |-> c.updated_at,
        coverage_breadth |-> c.coverage_breadth,
        best_article |-> [c.best_article EXCEPT !.url = picked.best.url,
                                                !.source_domain = picked.best.source_domain,
                                                !.trace_summary = picked.trace],
        articles |-> c.articles,
        alternatives |-> picked.alternatives]

\* the callback of the first map of deriveClusters; rank_score in thousandths
DeriveOne(c, s) ==
    LET mutes == [i \in 1..Len(s.keywordMutes) |-> toLowerCase(Spell(s.keywordMutes[i]))]
        boosts == [i \in 1..Len(s.topicBoosts) |-> toLowerCase(Spell(s.topicBoosts[i]))]
        picked == chooseBestArticle(c, s)
        recencyScore == Max(0, 72 - (now - c.updated_at))
        outletCount == Cardinality({a.source_domain : a \in Range(c.articles)})
        regionSet == {Lookup(a.labels, "region", "Global") : a \in Range(c.articles)}
        size == Cardinality(regionSet)
        topicBoost ==
            \E k \in 1..Len(c.topic_tags) :
                \E i \in 1..Len(boosts) : boosts[i] = toLowerCase(Spell(c.topic_tags[k]))
        muted ==
            \E i \in 1..Len(mutes) : includes(toLowerCase(Spell(c.title)), mutes[i])
        \* rank * 1200 * size
        rank == 5 * size * recencyScore
                + 60 * size * outletCount
                + 24 * SumOver(regionSet, s.regionWeights)
                + (IF topicBoost THEN 72 * size ELSE 0)
                - (IF muted THEN 96 * size ELSE 0)
    IN [cluster_id |-> c.cluster_id,
        rank_score |-> ToFixed3(rank, 1200 * size),
        priority |-> c.priority,
        title |-> c.title,
        topic_tags |-> c.topic_tags,
        updated_at |-> c.updated_at,
        coverage_breadth |-> c.coverage_breadth,
        best_article |-> [c.best_article EXCEPT !.url = picked.best.url,
                                                !.source_domain = picked.best.source_domain,
                                                !.labels = picked.best.labels,
                                                !.trace_summary = picked.trace],
        articles |-> c.articles,
        alternatives |-> picked.alternatives]

\* the last map of deriveClusters with the scan tier counted from position 0
PriorityAt_ScanFromStart(index, s) ==
    IF index < s.topCount THEN "top"
    ELSE IF index < s.scanCount THEN "scan"
    ELSE "low"

\* the callback of the last map of deriveClusters
PriorityAt(index, s) ==
    IF index < s.topCount THEN "top"
    ELSE IF index < s.topCount + s.scanCount THEN "scan"
    ELSE "low"

RECURSIVE MapDerive(_, _)
\* data.clusters.map((cluster) => ...), the first map of deriveClusters
MapDerive(cs, s) ==
    IF cs = <<>> THEN <<>> ELSE <<DeriveOne(Head(cs), s)>> \o MapDerive(Tail(cs), s)

deriveClusters(today, s) ==
    CHOOSE result \in
        {LET sorted == SortDescending(mapped, [i \in 1..Len(mapped) |-> mapped[i].rank_score])
             sliced == Take(sorted, s.storiesPerDay)
         IN [i \in 1..Len(sliced) |-> [sliced[i] EXCEPT !.priority = PriorityAt(i - 1, s)]]
           : mapped \in {MapDerive(today.clusters, s)}} : TRUE

-----------------------------------------------------------------------------
(* deriveClusters on a fetched today.json (specification SpecRank)         *)

\* the most clusters of today.json
MaxClusters == 3

RankArticle(url, title, domain, region, timestamp) ==
    [url |-> url, title |-> title, source_domain |-> domain, timestamp |-> timestamp,
     snippet |-> "Summary",
     labels |-> [reliability |-> "High", paywall |-> "No", region |-> region,
                 bias_label |-> "Center"]]

\* clusters of today.json: the first two differ in title only, the third is older
\* and has one more outlet, the fourth is a cluster of Articles
TodayClusters == {
    TodayCluster("cluster-b",
        <<RankArticle("https://a.com/1", "B Story", "a.com", "US", 40)>>),
    TodayCluster("cluster-a",
        <<RankArticle("https://d.net/4", "A Story", "d.net", "US", 40)>>),
    TodayCluster("cluster-c",
        <<RankArticle("https://www.b.com/2", "C Story", "b.com", "US", 28),
          RankArticle("https://c.org/3", "C Story", "c.org", "US", 20)>>),
    TodayCluster("cluster-d",
        <<CHOOSE a \in Articles : a.source_domain = "a.com",
          CHOOSE a \in Articles : a.source_domain = "c.org">>) }

\* storiesPerDay, topCount, scanCount, keywordMutes, topicBoosts as the Settings
\* tab can set them
RankParts ==
    {DefaultRankPart,
     [storiesPerDay |-> 1, topCount |-> 1, scanCount |-> 1,
      keywordMutes |-> <<"C Story">>, topicBoosts |-> <<"Story">>],
     [storiesPerDay |-> 20, topCount |-> 1, scanCount |-> 1,
      keywordMutes |-> <<"Budget">>, topicBoosts |-> <<"budget", "Tax">>]}

InitRank ==
    /\ now \in AsOfTimes
    /\ pc = "rank"
    /\ BuildIdle
    /\ OutputIdle
    /\ ChooseIdle
    /\ again = Idle
    /\ AppIdle
    /\ \E list \in SeqsUpTo(TodayClusters, MaxClusters) :
          /\ \A i, j \in 1..Len(list) : i # j => list[i] # list[j]
          /\ data = [clusters |-> list]
    /\ settings \in UNION {SettingsWith(r) : r \in RankParts}
    /\ derived = <<>>

\* const clusters = deriveClusters(todayData, settings)
DeriveClusters ==
    /\ pc = "rank"
    /\ pc' = "ranked"
    /\ derived' = deriveClusters(data, settings)
    /\ UNCHANGED <<now, feedIdx, xml, allItems, failures, deduped, cursor, clusters,
                   cluster, settings, chosen, data, payload, files, again,
                   urlArg, urlResult, archive, detail>>

\* the hours the clock advances between two runs of deriveClusters
LaterBy == {12}

\* Date.now() moves on while the feed is shown
ClockAdvances ==
    /\ pc = "ranked"
    /\ pc' = "later"
    /\ \E hours \in LaterBy : now' = now + hours
    /\ UNCHANGED <<feedIdx, xml, allItems, failures, deduped, cursor, clusters,
                   cluster, settings, chosen, data, derived, payload, files, again,
                   urlArg, urlResult, archive, detail>>

\* the second run of DeriveAgain with its output reversed
DeriveAgain_Reversed ==
    /\ pc \in {"ranked", "later"}
    /\ pc' = (IF pc = "ranked" THEN "reranked" ELSE "rerankedLater")
    /\ again' = (LET run == deriveClusters(data, settings) IN ReverseRun(run, Len(run)))
    /\ UNCHANGED <<now, feedIdx, xml, allItems, failures, deduped, cursor, clusters,
                   cluster, settings, chosen, data, derived, payload, files,
                   urlArg, urlResult, archive, detail>>

\* deriveClusters runs once more on the same data and settings (the useMemo of clusters
\* recomputes, or the archive view derives the same day), at the clock of that moment
DeriveAgain ==
    /\ pc \in {"ranked", "later"}
    /\ pc' = (IF pc = "ranked" THEN "reranked" ELSE "rerankedLater")
    /\ again' = deriveClusters(data, settings)
    /\ UNCHANGED <<now, feedIdx, xml, allItems, failures, deduped, cursor, clusters,
                   cluster, settings, chosen, data, derived, payload, files,
                   urlArg, urlResult, archive, detail>>

NextRank ==
    \/ DeriveClusters
    \/ ClockAdvances
    \/ DeriveAgain

SpecRank == InitRank /\ [][NextRank]_vars

-----------------------------------------------------------------------------
(* Claims on deriveClusters (specification SpecRank)                       *)

\* the place of a character in the alphabet, case ignored; 0 for any other character
C7_Place(ch) ==
    IF \E k \in 1..26 : LowerChars[k] = toLowerChar(ch)
    THEN CHOOSE k \in 1..26 : LowerChars[k] = toLowerChar(ch)
    ELSE 0

\* title a is lexically smaller than title b
C7_LexSmaller(a, b) ==
    LET x == Spell(a)
        y == Spell(b)
    IN \E k \in 1..(Len(x) + 1) :
          /\ \A m \in 1..(k - 1) : m <= Len(y) /\ C7_Place(x[m]) = C7_Place(y[m])
          /\ \/ (k = Len(x) + 1 /\ Len(y) >= k)
             \/ (k <= Len(x) /\ k <= Len(y) /\ C7_Place(x[k]) < C7_Place(y[k]))

\* C7: of two clusters of the output with equal rank_score the one with the newer
\* updated_at comes first, and with updated_at equal too the one whose title is
\* lexically smaller comes first, whatever their order in the input.
C7_TiesBrokenByUpdatedAtThenTitle ==
    pc = "ranked" =>
        \A i, j \in 1..Len(derived) :
            (i < j /\ derived[i].rank_score = derived[j].rank_score) =>
                \/ derived[i].updated_at > derived[j].updated_at
                \/ /\ derived[i].updated_at = derived[j].updated_at
                   /\ ~C7_LexSmaller(derived[j].title, derived[i].title)


\* the rank_score deriveClusters gives a cluster of today.json
C15_Score(c) == DeriveOne(c, settings).rank_score

\* the clusters of today.json that are not in the output
C15_LeftOut ==
    {c \in Range(data.clusters) :
        \A i \in 1..Len(derived) : derived[i].cluster_id # c.cluster_id}

\* C15: the output has at most storiesPerDay clusters, the highest-ranked prefix of
\* the sorted list, and priority follows position only: the first topCount are "top",
\* the next scanCount are "scan", all later ones are "low".
C15_OutputShape ==
    pc = "ranked" =>
        /\ Len(derived) <= settings.storiesPerDay
        /\ Len(derived) = Min(settings.storiesPerDay, Len(data.clusters))
        /\ \A i \in 1..Len(derived) :
              \E c \in Range(data.clusters) :
                  /\ c.cluster_id = derived[i].cluster_id
                  /\ C15_Score(c) = derived[i].rank_score
        /\ \A i, j \in 1..Len(derived) :
              i < j => derived[i].rank_score >= derived[j].rank_score
        /\ \A c \in C15_LeftOut :
              \A i \in 1..Len(derived) : derived[i].rank_score >= C15_Score(c)
        /\ \A i \in 1..Len(derived) :
              derived[i].priority =
                  (IF i <= settings.topCount THEN "top"
                   ELSE IF i <= settings.topCount + settings.scanCount THEN "scan"
                   ELSE "low")
        /\ \A i, j \in 1..Len(derived) :
              i < j => <<derived[i].priority, derived[j].priority>> \in
                          {<<"top", "top">>, <<"top", "scan">>, <<"top", "low">>,
                           <<"scan", "scan">>, <<"scan", "low">>, <<"low", "low">>}

\* C15 witness: an output with all three tiers
C15_Witness ==
    /\ pc = "ranked"
    /\ Len(derived) = 3
    /\ derived[1].priority = "top"
    /\ derived[2].priority = "scan"
    /\ derived[3].priority = "low"

\* C15 witness of the truncation: the output is shorter than the cluster list
C15_Truncated ==
    /\ pc = "ranked"
    /\ data.clusters # <<>>
    /\ Len(derived) = settings.storiesPerDay
    /\ Len(derived) < Len(data.clusters)


C30_InputOf(c) == CHOOSE src \in Range(data.clusters) : src.cluster_id = c.cluster_id

\* C30: for every cluster returned by deriveClusters, under any settings, the url,
\* source_domain and labels of best_article are those of one article of the
\* cluster's own articles list, and the articles list is the list of the input
\* cluster unchanged, so that the settings change neither the articles of a cluster
\* nor the cluster an article belongs to.
C30_BestIsOwnArticle ==
    pc \in {"ranked", "later"} =>
        /\ \A i \in 1..Len(derived) :
              /\ \E src \in Range(data.clusters) : src.cluster_id = derived[i].cluster_id
              /\ derived[i].articles = C30_InputOf(derived[i]).articles
              /\ \E a \in Range(derived[i].articles) :
                    /\ a.url = derived[i].best_article.url
                    /\ a.source_domain = derived[i].best_article.source_domain
                    /\ a.labels = derived[i].best_article.labels
        /\ \A i, j \in 1..Len(derived) : i # j => derived[i].cluster_id # derived[j].cluster_id

\* C30 witness: under settings that hide a.com, a returned cluster of two articles has
\* another best_article than today.json gave it
C30_Witness ==
    /\ pc = "ranked"
    /\ "a.com" \in DOMAIN settings.sourceWeights
    /\ settings.sourceWeights["a.com"] = "hide"
    /\ \E i \in 1..Len(derived) :
          /\ Len(derived[i].articles) = 2
          /\ derived[i].best_article.url # C30_InputOf(derived[i]).best_article.url
          /\ derived[i].best_article.labels # C30_InputOf(derived[i]).best_article.labels

-----------------------------------------------------------------------------
(* The story details of App (specification SpecDetail)                     *)

\* null in the selectedClusterId state of App
NullId == "null"
\* null in the assessment state of App
NullAssessment == [null |-> TRUE]

\* the clusters of the brief
DetailClusters ==
    {c \in TodayClusters : c.cluster_id \in {"cluster-a", "cluster-b", "cluster-c"}}

\* clusters.find((c) => c.cluster_id === selectedClusterId)
selectedCluster(d) == CHOOSE c \in DetailClusters : c.cluster_id = d.selectedClusterId

\* /data/assessments/${cluster_id}.json as the build of the day wrote it
AssessmentFile(c) ==
    [what_happened |-> <<c.title, "as assessed">>,
     why_it_matters |-> <<"assessed">>,
     what_to_watch |-> [decision_point |-> "vote", deadline |-> c.updated_at + 48],
     stakeholders |-> <<c.best_article.source_domain>>]

\* the assessment generated from the selected cluster
assessmentFallback(c) ==
    LET sources == {a.source_domain : a \in Range(c.articles)}
    IN [what_happened |-> <<c.title,
                            <<"Coverage currently includes ", Len(c.articles),
                              " articles from ", Cardinality(sources), " outlets.">> >>,
        why_it_matters |-> <<<<"Coverage breadth is ", c.coverage_breadth, ".">>,
                             <<"Best source currently selected: ",
                               c.best_article.source_domain, ".">> >>,
        what_to_watch |-> [decision_point |->
                               "Watch for follow-up updates and new source coverage.",
                           deadline |-> c.updated_at + 24],
        stakeholders |-> sources]

\* the responses of /data/assessments/${cluster_id}.json
ServedAssessments ==
    {[id \in {c.cluster_id : c \in DetailClusters} |->
         [ok |-> TRUE, json |-> AssessmentFile(CHOOSE c \in DetailClusters : c.cluster_id = id)]],
     [id \in {c.cluster_id : c \in DetailClusters} |->
         IF id = "cluster-c" THEN [ok |-> FALSE]
         ELSE [ok |-> TRUE,
               json |-> AssessmentFile(CHOOSE c \in DetailClusters : c.cluster_id = id)]]}

DetailTabs == {"coverage", "why", "assessment"}

\* the fetch of the effect of selectedCluster and activeDetailTab
AssessmentFetches(id, tab, issued) ==
    IF id = NullId \/ tab # "assessment" THEN {} ELSE {[id |-> issued + 1, cluster_id |-> id]}

InitDetail ==
    /\ now \in AsOfTimes
    /\ pc = "detail"
    /\ BuildIdle
    /\ OutputIdle
    /\ settings = Idle
    /\ ChooseIdle
    /\ RankIdle
    /\ again = Idle
    /\ urlArg = Idle
    /\ urlResult = Idle
    /\ archive = Idle
    /\ \E served \in ServedAssessments, tab \in DetailTabs,
          id \in {c.cluster_id : c \in DetailClusters} \cup {NullId} :
          detail = [selectedClusterId |-> id,
                    activeDetailTab |-> tab,
                    assessment |-> NullAssessment,
                    served |-> served,
                    inFlight |-> AssessmentFetches(id, tab, 0),
                    issued |-> Cardinality(AssessmentFetches(id, tab, 0))]

\* const selectedAssessment = assessment ?? assessmentFallback
selectedAssessment(d) ==
    IF d.assessment # NullAssessment THEN d.assessment
    ELSE assessmentFallback(selectedCluster(d))

\* the state after a click, with the effect that runs when selectedCluster or
\* activeDetailTab changed
AfterClick(d, id, tab, assessment) ==
    LET fetches == IF id # d.selectedClusterId \/ tab # d.activeDetailTab
                   THEN AssessmentFetches(id, tab, d.issued)
                   ELSE {}
    IN [d EXCEPT !.selectedClusterId = id,
                 !.activeDetailTab = tab,
                 !.assessment = assessment,
                 !.inFlight = @ \cup fetches,
                 !.issued = @ + Cardinality(fetches)]

DetailStep(after) ==
    /\ pc = "detail"
    /\ after # detail
    /\ after.issued <= MaxFetches
    /\ detail' = after
    /\ UNCHANGED <<now, pc, feedIdx, xml, allItems, failures, deduped, cursor, clusters,
                   cluster, settings, chosen, data, derived, payload, files, again,
                   urlArg, urlResult, archive>>

\* the button Coverage of a story
OpenCoverage ==
    /\ pc = "detail"
    /\ \E c \in DetailClusters :
          DetailStep(AfterClick(detail, c.cluster_id, "coverage", detail.assessment))

\* the button Why this link of a story
OpenWhy ==
    /\ pc = "detail"
    /\ \E c \in DetailClusters :
          DetailStep(AfterClick(detail, c.cluster_id, "why", detail.assessment))

\* the button Assessment of a story
OpenAssessment ==
    /\ pc = "detail"
    /\ \E c \in DetailClusters :
          DetailStep(AfterClick(detail, c.cluster_id, "assessment", NullAssessment))

\* the button Close of the details, and the Escape key
CloseDetail ==
    /\ detail.selectedClusterId # NullId
    /\ DetailStep(AfterClick(detail, NullId, detail.activeDetailTab, detail.assessment))

\* a tab of the details of the selected story
SelectDetailTab ==
    /\ detail.selectedClusterId # NullId
    /\ \E tab \in DetailTabs :
          DetailStep(AfterClick(detail, detail.selectedClusterId, tab,
                                IF tab = "assessment" THEN NullAssessment
                                ELSE detail.assessment))

\* what the promise chain of a fetch passes to setAssessment
AssessmentResponse(served, id) ==
    IF served[id].ok THEN served[id].json ELSE NullAssessment

\* a fetch of the effect settles: setAssessment
AssessmentFetchSettles ==
    \E fetch \in detail.inFlight :
        DetailStep([detail EXCEPT
                       !.assessment = AssessmentResponse(detail.served, fetch.cluster_id),
                       !.inFlight = @ \ {fetch}])

NextDetail ==
    \/ OpenCoverage
    \/ OpenWhy
    \/ OpenAssessment
    \/ CloseDetail
    \/ SelectDetailTab
    \/ AssessmentFetchSettles

SpecDetail == InitDetail /\ [][NextDetail]_vars

-----------------------------------------------------------------------------
(* Claims on the story details (specification SpecDetail)                  *)

\* C29: once no assessment fetch is in flight, the assessment shown on the
\* Assessment tab is the one fetched for the selected cluster or the fallback
\* generated from the selected cluster, never the one of another cluster.
C29_AssessmentOfSelectedCluster ==
    (/\ pc = "detail"
     /\ detail.inFlight = {}
     /\ detail.selectedClusterId # NullId
     /\ detail.activeDetailTab = "assessment") =>
        \/ selectedAssessment(detail) = AssessmentFile(selectedCluster(detail))
        \/ selectedAssessment(detail) = assessmentFallback(selectedCluster(detail))

\* the assessment held is null or one that the server holds for some cluster
C29_AssessmentIsSomeFile ==
    pc = "detail" =>
        \/ detail.assessment = NullAssessment
        \/ \E c \in DetailClusters : detail.assessment = AssessmentFile(c)

=============================================================================
